---- MODULE Spec2Model ----
(***************************************************************************)
(* Tabulon: conversion of CSV / JSON / XML text into a paginated document. *)
(*                                                                         *)
(* A JavaScript string is modelled as a sequence of one-character strings, *)
(* so that tokenizing, trimming, splitting and serializing are computed    *)
(* character by character as the source computes them.                     *)
(***************************************************************************)
EXTENDS Integers, Sequences, FiniteSets, TLC

VARIABLES
  format,    \* the declared source format: "csv", "json" or "xml"
  content,   \* the raw file text handed to the engine
  options,   \* the PdfOptions record
  surface,   \* what the page-drawing surface does with this input
  pc,        \* "ready" before the conversion, "done" after it
  doc,       \* the conversion's outcome: projection, drawn pages, saved file
  file,      \* the page's selected File, NoFile for null
  reads,     \* the FileReader reads started and not yet completed
  notice     \* what the last handler reported to the user, "none" if nothing

vars == <<format, content, options, surface, pc, doc, file, reads, notice>>

\* null where a File is expected
NoFile == [name |-> <<>>, text |-> <<>>, size |-> 0, type |-> ""]

\* The page state of a conversion looked at on its own
NoPage == file = NoFile /\ reads = <<>> /\ notice = "none"

(***************************************************************************)
(* String helpers (JavaScript built-ins used by the source)                *)
(***************************************************************************)

\* The one value of a set of one: binds an intermediate result once
The(S) == CHOOSE x \in S : TRUE

\* White space removed by String.prototype.trim
WhiteSpace == {" ", "\t", "\n", "\r"}

RECURSIVE TrimStart(_)
TrimStart(s) ==
  IF s # <<>> /\ Head(s) \in WhiteSpace THEN TrimStart(Tail(s)) ELSE s

RECURSIVE TrimEnd(_)
TrimEnd(s) ==
  IF s # <<>> /\ s[Len(s)] \in WhiteSpace
  THEN TrimEnd(SubSeq(s, 1, Len(s) - 1))
  ELSE s

\* String.prototype.trim
Trim(s) == TrimEnd(TrimStart(s))

\* The least member of a set of positions, 0 for the empty set
firstOf(P) == IF P = {} THEN 0 ELSE CHOOSE i \in P : \A j \in P : i <= j

\* String.prototype.split with a one-character separator: the empty string
\* splits into one empty piece
SplitAt(s, cuts) ==
  [k \in 1..(Len(cuts) + 1) |->
     SubSeq(s, IF k = 1 THEN 1 ELSE cuts[k - 1] + 1,
               IF k > Len(cuts) THEN Len(s) ELSE cuts[k] - 1)]

\* The pieces lie between the positions of the separator
Split(s, sep) ==
  The({SplitAt(s, cuts)
       : cuts \in {SelectSeq([j \in 1..Len(s) |-> j], LAMBDA j : s[j] = sep)}})

\* The text "abc" as a sequence of characters, for readable literals
RECURSIVE Concat(_)
Concat(ss) ==
  IF ss = <<>> THEN <<>>
  ELSE IF Len(ss) = 1 THEN ss[1]
  ELSE Concat(SubSeq(ss, 1, Len(ss) \div 2))
         \o Concat(SubSeq(ss, Len(ss) \div 2 + 1, Len(ss)))

\* All sequences over S of length at most n
RECURSIVE SeqsUpTo(_, _)
SeqsUpTo(S, n) ==
  IF n = 0 THEN {<<>>}
  ELSE LET shorter == SeqsUpTo(S, n - 1)
       IN  shorter \cup {Append(s, c) : s \in {t \in shorter : Len(t) = n - 1}, c \in S}

(***************************************************************************)
(* Tabular tokenizer                                                       *)
(***************************************************************************)

\* parseCsv, the per-line character loop: state (cells, current, inQuotes)
RECURSIVE csvScan(_, _, _, _, _)
csvScan(line, i, cells, current, inQuotes) ==
  IF i > Len(line) THEN Append(cells, Trim(current))
  ELSE IF line[i] = "\"" THEN csvScan(line, i + 1, cells, current, ~inQuotes)
  ELSE IF line[i] = "," /\ ~inQuotes
       THEN csvScan(line, i + 1, Append(cells, Trim(current)), <<>>, inQuotes)
  ELSE csvScan(line, i + 1, cells, Append(current, line[i]), inQuotes)

\* A tokenizer that drops quote characters without toggling inQuotes
RECURSIVE csvScanNoToggle(_, _, _, _)
csvScanNoToggle(line, i, cells, current) ==
  IF i > Len(line) THEN Append(cells, Trim(current))
  ELSE IF line[i] = "\"" THEN csvScanNoToggle(line, i + 1, cells, current)
  ELSE IF line[i] = ","
       THEN csvScanNoToggle(line, i + 1, Append(cells, Trim(current)), <<>>)
  ELSE csvScanNoToggle(line, i + 1, cells, Append(current, line[i]))

csvLineNoToggle(line) == csvScanNoToggle(line, 1, <<>>, <<>>)

csvLine(line) == csvScan(line, 1, <<>>, <<>>, FALSE)

parseCsv(text) ==
  LET lines == Split(Trim(text), "\n")
  IN  [i \in 1..Len(lines) |-> csvLine(lines[i])]

(***************************************************************************)
(* The page-drawing surface (jsPDF) and the shared page decorations        *)
(* Lengths are in tenths of a millimetre.                                  *)
(***************************************************************************)

fontSizeMap(fontSize) ==
  CASE fontSize = "small"  -> [body |-> 8,  header |-> 9,  title |-> 14]
    [] fontSize = "medium" -> [body |-> 10, header |-> 11, title |-> 16]
    [] fontSize = "large"  -> [body |-> 12, header |-> 13, title |-> 18]

\* doc.internal.pageSize.getHeight() of new jsPDF({orientation, unit: 'mm', format})
pageHeightOf(opts) ==
  IF opts.pageSize = "a4"
  THEN (IF opts.orientation = "portrait" THEN 2970 ELSE 2100)
  ELSE (IF opts.orientation = "portrait" THEN 2794 ELSE 2159)

\* new jsPDF(...): one empty page, which is the current page
newDoc == [pages |-> << <<>> >>, cur |-> 1]

\* doc.text / doc.addImage: one more drawing on the current page
draw(d, item) == [d EXCEPT !.pages[d.cur] = Append(@, item)]

\* doc.addPage: a new last page, which becomes the current page
addPage(d) == [pages |-> Append(d.pages, <<>>), cur |-> Len(d.pages) + 1]

\* doc.setPage(i)
setPage(d, i) == [d EXCEPT !.cur = i]

\* doc.getNumberOfPages()
getNumberOfPages(d) == Len(d.pages)

\* addPageFooter(doc, pageNumber, totalPages, customFooter); totalPages = 0
\* stands for undefined (0 is falsy as well)
addPageFooter(d, pageNumber, totalPages, customFooter) ==
  LET total == IF totalPages # 0 THEN totalPages ELSE getNumberOfPages(d)
      d1 == draw(d, [op |-> "pageNumber", page |-> pageNumber, total |-> total])
      d2 == IF customFooter # "" THEN draw(d1, [op |-> "footerText", text |-> customFooter])
            ELSE d1
  IN  draw(d2, [op |-> "attribution"])

\* addWatermark(doc, text)
addWatermark(d, text) == draw(d, [op |-> "watermark", text |-> text])

\* A block that leaves room for the logo also when placing it failed
decorateLogoRoom(opts, surf, defaultTitle, metaText, metaStep, noMetaStep) ==
  LET d0 == newDoc
      logoOk == opts.companyLogo # "" /\ surf.logoOk
      d1 == IF logoOk THEN draw(d0, [op |-> "logo", y |-> 200]) ELSE d0
      y1 == IF opts.companyLogo # "" THEN 400 ELSE 200
      d2 == IF opts.headerText # ""
            THEN draw(d1, [op |-> "headerText", text |-> opts.headerText])
            ELSE d1
      d3 == draw(d2, [op |-> "title", y |-> y1,
                      text |-> IF opts.customTitle # "" THEN opts.customTitle
                               ELSE defaultTitle])
      y3 == y1 + 80
      d4 == IF opts.showMetadata
            THEN draw(draw(d3, [op |-> "generated", y |-> y3]),
                      [op |-> "meta", y |-> y3 + 60, text |-> metaText])
            ELSE d3
      y4 == IF opts.showMetadata THEN y3 + 60 + metaStep ELSE y3 + noMetaStep
  IN  [d |-> d4, y |-> y4]

\* The block every generate function starts with: logo, header text, title,
\* metadata.  Yields the surface and currentY.  metaStep is what currentY
\* advances by after the second metadata line, noMetaStep what it advances
\* by without metadata.
decorate(opts, surf, defaultTitle, metaText, metaStep, noMetaStep) ==
  LET d0 == newDoc
      logoOk == opts.companyLogo # "" /\ surf.logoOk
      d1 == IF logoOk THEN draw(d0, [op |-> "logo", y |-> 200]) ELSE d0
      y1 == IF logoOk THEN 400 ELSE 200
      d2 == IF opts.headerText # ""
            THEN draw(d1, [op |-> "headerText", text |-> opts.headerText])
            ELSE d1
      d3 == draw(d2, [op |-> "title", y |-> y1,
                      text |-> IF opts.customTitle # "" THEN opts.customTitle
                               ELSE defaultTitle])
      y3 == y1 + 80
      d4 == IF opts.showMetadata
            THEN draw(draw(d3, [op |-> "generated", y |-> y3]),
                      [op |-> "meta", y |-> y3 + 60, text |-> metaText])
            ELSE d3
      y4 == IF opts.showMetadata THEN y3 + 60 + metaStep ELSE y3 + noMetaStep
  IN  [d |-> d4, y |-> y4]

\* The didDrawPage hook the three table renderers hand to autoTable
didDrawPage(d, pageNumber, opts) ==
  LET d1 == addPageFooter(d, pageNumber, 0, opts.footerText)
  IN  IF opts.watermark # "" THEN addWatermark(d1, opts.watermark) ELSE d1

\* autoTable(doc, {head, body, startY, didDrawPage}): the plugin draws the
\* head row and as many body rows as fit the page, calls didDrawPage when
\* the page is finished, and only then adds the next page.  How many rows
\* fit is the surface's (surf.rowsPerPage).
RECURSIVE autoTableFrom(_, _, _, _, _, _, _)
autoTableFrom(d, head, body, i, pageNumber, opts, surf) ==
  LET last == IF i + surf.rowsPerPage - 1 < Len(body) THEN i + surf.rowsPerPage - 1
              ELSE Len(body)
      d1 == draw(d, [op |-> "head", cells |-> head])
      d2 == draw(d1, [op |-> "rows", first |-> i, last |-> last])
      d3 == didDrawPage(d2, pageNumber, opts)
  IN  IF last < Len(body)
      THEN autoTableFrom(addPage(d3), head, body, last + 1, pageNumber + 1, opts, surf)
      ELSE d3

autoTable(d, head, body, opts, surf) == autoTableFrom(d, head, body, 1, 1, opts, surf)

\* The rows handed to autoTable: tableHeaders and tableData
tableHeaders(headers, opts) ==
  IF opts.showRowNumbers THEN << <<"#">> >> \o headers ELSE headers

\* String(n) for a non-negative integer
RECURSIVE NatToString(_)
NatToString(n) ==
  IF n < 10 THEN <<SubSeq(<<"0","1","2","3","4","5","6","7","8","9">>, n + 1, n + 1)[1]>>
  ELSE NatToString(n \div 10) \o NatToString(n % 10)

tableData(rows, opts) ==
  [i \in 1..Len(rows) |->
     IF opts.showRowNumbers THEN <<NatToString(i)>> \o rows[i] ELSE rows[i]]

\* What a conversion leaves behind
outcome(path, parsed, headers, rows, head, body, lines, d, saved, threw) ==
  [path |-> path, parsed |-> parsed, headers |-> headers, rows |-> rows, head |-> head,
   body |-> body, lines |-> lines, pages |-> d.pages, saved |-> saved,
   threw |-> threw, group |-> [name |-> <<>>, count |-> 0]]

noOutcome == outcome("none", <<>>, <<>>, <<>>, <<>>, <<>>, <<>>, newDoc, "", FALSE)

(***************************************************************************)
(* CSV conversion                                                          *)
(***************************************************************************)

\* A renderer that pads or cuts every body row to the header's width
fitToWidth(row, w) ==
  [j \in 1..w |-> IF j <= Len(row) THEN row[j] ELSE <<>>]

generatePdfFromCsvFitted(text, opts, surf) ==
  LET rows == parseCsv(text)
      headers == IF Len(rows) > 0 THEN rows[1] ELSE <<>>
      dataRows == [i \in 1..(Len(rows) - 1) |-> fitToWidth(rows[i + 1], Len(headers))]
      top == decorate(opts, surf, "Data Export",
                      <<"Rows", Len(dataRows), "Columns", Len(headers)>>, 80, 0)
      head == tableHeaders(headers, opts)
      body == tableData(dataRows, opts)
      d == autoTable(top.d, head, body, opts, surf)
  IN  outcome("table", rows, headers, dataRows, head, body, <<>>, d, "export.pdf", FALSE)

generatePdfFromCsv(text, opts, surf) ==
  LET rows == parseCsv(text)
      headers == IF Len(rows) > 0 THEN rows[1] ELSE <<>>
      dataRows == SubSeq(rows, 2, Len(rows))
      top == decorate(opts, surf, "Data Export",
                      <<"Rows", Len(dataRows), "Columns", Len(headers)>>, 80, 0)
      head == tableHeaders(headers, opts)
      body == tableData(dataRows, opts)
      d == autoTable(top.d, head, body, opts, surf)
  IN  outcome("table", rows, headers, dataRows, head, body, <<>>, d, "export.pdf", FALSE)

(***************************************************************************)
(* JavaScript objects: properties in Object.keys order, which is integer-  *)
(* like keys in ascending numeric order first, then the other keys in      *)
(* order of insertion                                                      *)
(***************************************************************************)

Digits == <<"0", "1", "2", "3", "4", "5", "6", "7", "8", "9">>

DigitValue(c) == CHOOSE n \in 0..9 : Digits[n + 1] = c

IsDigit(c) == \E n \in 1..10 : Digits[n] = c

\* A canonical array index: "0", or digits without a leading zero
IsIndexKey(k) ==
  /\ Len(k) > 0
  /\ \A i \in 1..Len(k) : IsDigit(k[i])
  /\ (Len(k) = 1 \/ k[1] # "0")

RECURSIVE DigitsToNat(_)
DigitsToNat(k) ==
  IF k = <<>> THEN 0
  ELSE 10 * DigitsToNat(SubSeq(k, 1, Len(k) - 1)) + DigitValue(k[Len(k)])

hasKey(obj, k) == \E i \in 1..Len(obj) : obj[i].k = k

\* obj[k], for a key obj has
getKey(obj, k) == obj[CHOOSE i \in 1..Len(obj) : obj[i].k = k].v

\* Whether a new key k is enumerated before the existing key e
keyBefore(k, e) ==
  IsIndexKey(k) /\ (~IsIndexKey(e) \/ DigitsToNat(k) < DigitsToNat(e))

\* obj[k] = v
setKey(obj, k, v) ==
  IF hasKey(obj, k)
  THEN [i \in 1..Len(obj) |-> IF obj[i].k = k THEN [k |-> k, v |-> v] ELSE obj[i]]
  ELSE LET before == {i \in 1..Len(obj) : keyBefore(k, obj[i].k)}
           at == IF before = {} THEN Len(obj) + 1
                 ELSE CHOOSE i \in before : \A j \in before : i <= j
       IN  SubSeq(obj, 1, at - 1) \o <<[k |-> k, v |-> v]>> \o SubSeq(obj, at, Len(obj))

\* Object.keys(obj)
objectKeys(obj) == [i \in 1..Len(obj) |-> obj[i].k]

\* The methods every value inherits from Object.prototype, besides its
\* constructor: a property read item[name] finds them when item has no own
\* property of that name
ProtoKeys ==
  { <<"v","a","l","u","e","O","f">>,
    <<"t","o","S","t","r","i","n","g">>,
    <<"h","a","s","O","w","n","P","r","o","p","e","r","t","y">>,
    <<"i","s","P","r","o","t","o","t","y","p","e","O","f">>,
    <<"t","o","L","o","c","a","l","e","S","t","r","i","n","g">>,
    <<"p","r","o","p","e","r","t","y","I","s","E","n","u","m","e","r","a","b","l","e">> }

Constructor == <<"c","o","n","s","t","r","u","c","t","o","r">>

\* The names a property read finds on an object without own properties
InheritedKeys == ProtoKeys \cup {Constructor}

(***************************************************************************)
(* Hierarchy extractor, markup path: the regular expressions               *)
(***************************************************************************)

\* \w
WordChars ==
  {"a","b","c","d","e","f","g","h","i","j","k","l","m","n","o","p","q","r","s",
   "t","u","v","w","x","y","z","A","B","C","D","E","F","G","H","I","J","K","L",
   "M","N","O","P","Q","R","S","T","U","V","W","X","Y","Z","0","1","2","3","4",
   "5","6","7","8","9","_"}

\* Whether t stands in s at position i
startsAt(s, i, t) ==
  /\ i >= 1
  /\ i + Len(t) - 1 <= Len(s)
  /\ SubSeq(s, i, i + Len(t) - 1) = t

\* The first position from i on that holds character c, or 0
indexOfChar(s, i, c) == firstOf({j \in i..Len(s) : s[j] = c})

\* The length of the longest run of \w characters starting at i
wordRun(s, i) ==
  LET stop == firstOf({j \in i..Len(s) : s[j] \notin WordChars})
  IN  IF i > Len(s) THEN 0
      ELSE IF stop = 0 THEN Len(s) - i + 1
      ELSE stop - i

closeTag(name) == <<"<", "/">> \o name \o <<">">>

noMatch == [ok |-> FALSE, name |-> <<>>, attributes |-> <<>>, content |-> <<>>, end |-> 0]

\* /<(\w+)([^>]*)>([\s\S]*?)<\/\1>/ anchored at i with a tag name of n
\* characters or, by backtracking, fewer: the attributes run to the first
\* '>' and the content, matched lazily, to the first closing tag of the name
RECURSIVE elementTry(_, _, _)
elementTry(s, i, n) ==
  IF n = 0 THEN noMatch
  ELSE LET name == SubSeq(s, i + 1, i + n)
           gt == indexOfChar(s, i + n + 1, ">")
           close == IF gt = 0 THEN 0
                    ELSE firstOf({e \in (gt + 1)..Len(s) : startsAt(s, e, closeTag(name))})
       IN  IF close # 0
           THEN [ok |-> TRUE, name |-> name,
                 attributes |-> SubSeq(s, i + n + 1, gt - 1),
                 content |-> SubSeq(s, gt + 1, close - 1),
                 end |-> close + n + 2]
           ELSE elementTry(s, i, n - 1)

elementAt(s, i) ==
  IF i <= Len(s) /\ s[i] = "<" THEN elementTry(s, i, wordRun(s, i + 1)) ELSE noMatch

\* /<(\w+)([^>]*)>([^<]*)<\/\1>/ anchored at i: the content runs to the
\* next '<', which must open the closing tag of the name
RECURSIVE childTry(_, _, _)
childTry(s, i, n) ==
  IF n = 0 THEN noMatch
  ELSE LET name == SubSeq(s, i + 1, i + n)
           gt == indexOfChar(s, i + n + 1, ">")
           lt == IF gt = 0 THEN 0 ELSE indexOfChar(s, gt + 1, "<")
       IN  IF lt # 0 /\ startsAt(s, lt, closeTag(name))
           THEN [ok |-> TRUE, name |-> name,
                 attributes |-> SubSeq(s, i + n + 1, gt - 1),
                 content |-> SubSeq(s, gt + 1, lt - 1),
                 end |-> lt + n + 2]
           ELSE childTry(s, i, n - 1)

childAt(s, i) ==
  IF i <= Len(s) /\ s[i] = "<" THEN childTry(s, i, wordRun(s, i + 1)) ELSE noMatch

\* /(\w+)="([^"]*)"/ anchored at i
attrAt(s, i) ==
  LET n == wordRun(s, i)
      quote == IF n > 0 /\ startsAt(s, i + n, <<"=", "\"">>)
               THEN indexOfChar(s, i + n + 2, "\"") ELSE 0
  IN  IF quote # 0
      THEN [ok |-> TRUE, name |-> SubSeq(s, i, i + n - 1),
            attributes |-> <<>>,
            content |-> SubSeq(s, i + n + 2, quote - 1),
            end |-> quote]
      ELSE noMatch

\* xml.matchAll(elementRegex): the leftmost match from position i on, then
\* the matches after its end
RECURSIVE matchAllElements(_, _)
matchAllElements(s, i) ==
  The({IF at = 0 THEN <<>>
       ELSE The({<<m>> \o matchAllElements(s, m.end + 1) : m \in {elementAt(s, at)}})
       : at \in {firstOf({j \in i..Len(s) : elementAt(s, j).ok})}})

\* if (!groups[tagName]) groups[tagName] = []; groups[tagName].push(...) for
\* every match.  For a tag name that Object.prototype has too, groups[tagName]
\* is the inherited function: no array is stored and push is not a function,
\* a TypeError (threw).
RECURSIVE groupMatches(_, _)
groupMatches(matches, groups) ==
  IF matches = <<>> THEN [threw |-> FALSE, groups |-> groups]
  ELSE LET m == Head(matches)
           item == [attributes |-> m.attributes, content |-> m.content]
           old == IF hasKey(groups, m.name) THEN getKey(groups, m.name) ELSE <<>>
       IN  IF ~hasKey(groups, m.name) /\ m.name \in InheritedKeys
           THEN [threw |-> TRUE, groups |-> groups]
           ELSE groupMatches(Tail(matches), setKey(groups, m.name, Append(old, item)))

\* Object.entries(groups).forEach: the largest group of more than one item
RECURSIVE pickGroup(_, _, _, _)
pickGroup(groups, i, maxGroup, maxCount) ==
  IF i > Len(groups) THEN [name |-> maxGroup, count |-> maxCount]
  ELSE IF Len(groups[i].v) > maxCount /\ Len(groups[i].v) > 1
       THEN pickGroup(groups, i + 1, groups[i].k, Len(groups[i].v))
       ELSE pickGroup(groups, i + 1, maxGroup, maxCount)

\* while ((attrMatch = attrRegex.exec(item.attributes)) !== null)
RECURSIVE parseAttributes(_, _, _)
parseAttributes(s, i, obj) ==
  LET at == firstOf({j \in i..Len(s) : attrAt(s, j).ok})
      m == attrAt(s, at)
  IN  IF at = 0 THEN obj
      ELSE parseAttributes(s, m.end + 1, setKey(obj, <<"@">> \o m.name, m.content))

\* while ((childMatch = childRegex.exec(item.content)) !== null)
RECURSIVE parseChildren(_, _, _)
parseChildren(s, i, obj) ==
  LET at == firstOf({j \in i..Len(s) : childAt(s, j).ok})
      m == childAt(s, at)
  IN  IF at = 0 THEN obj
      ELSE parseChildren(s, m.end + 1, setKey(obj, m.name, Trim(m.content)))

itemToObject(item) ==
  parseChildren(item.content, 1, parseAttributes(item.attributes, 1, <<>>))

IsNonEmpty(obj) == Len(obj) > 0

\* parseXmlToObjects, with the group it selected ('' and 0 when none);
\* threw where the grouping throws
parseXml(xml) ==
  LET grouped == groupMatches(matchAllElements(xml, 1), <<>>)
      groups == grouped.groups
      max == pickGroup(groups, 1, <<>>, 0)
      items == IF max.name # <<>> /\ hasKey(groups, max.name)
               THEN getKey(groups, max.name) ELSE <<>>
      objs == [i \in 1..Len(items) |-> itemToObject(items[i])]
  IN  IF grouped.threw
      THEN [threw |-> TRUE, group |-> [name |-> <<>>, count |-> 0], results |-> <<>>]
      ELSE [threw |-> FALSE, group |-> max, results |-> SelectSeq(objs, IsNonEmpty)]

parseXmlToObjects(xml) == parseXml(xml).results

(***************************************************************************)
(* Structured rendering: the line loop and the stamping pass               *)
(***************************************************************************)

\* The per-orientation character budget of generateStructuredXmlPdf
maxCharsOf(opts) == IF opts.orientation = "landscape" THEN 120 ELSE 80

\* A line loop that breaks the page as soon as the line after the current
\* one would not fit
renderLineEarly(d, y, line, i, opts, marker, truncate) ==
  LET step == fontSizeMap(opts.fontSize).body * 5
      break == y + step > pageHeightOf(opts) - 200
      d1 == IF break
            THEN draw(addPage(d), [op |-> "continued", text |-> marker])
            ELSE d
      y1 == IF break THEN 200 ELSE y
      shown == IF truncate /\ Len(line) > maxCharsOf(opts)
               THEN SubSeq(line, 1, maxCharsOf(opts)) \o <<".", ".", ".">>
               ELSE line
      d2 == draw(d1, [op |-> "lineNumber", n |-> i, y |-> y1])
      d3 == draw(d2, [op |-> "line", n |-> i, text |-> shown, y |-> y1])
  IN  [d |-> d3, y |-> y1 + step]

\* renderLine breaking the page after a line that fills it
renderLineBreakAfter(d, y, line, i, opts, marker, truncate) ==
  LET step == fontSizeMap(opts.fontSize).body * 5
      shown == IF truncate /\ Len(line) > maxCharsOf(opts)
               THEN SubSeq(line, 1, maxCharsOf(opts)) \o <<".", ".", ".">>
               ELSE line
      d2 == draw(d, [op |-> "lineNumber", n |-> i, y |-> y])
      d3 == draw(d2, [op |-> "line", n |-> i, text |-> shown, y |-> y])
      break == y + step > pageHeightOf(opts) - 200
  IN  IF break
      THEN [d |-> draw(addPage(d3), [op |-> "continued", text |-> marker]), y |-> 200]
      ELSE [d |-> d3, y |-> y + step]

\* renderLine breaking the page already for a line on the bottom margin
renderLineAtMargin(d, y, line, i, opts, marker, truncate) ==
  LET break == y >= pageHeightOf(opts) - 200
      d1 == IF break
            THEN draw(addPage(d), [op |-> "continued", text |-> marker])
            ELSE d
      y1 == IF break THEN 200 ELSE y
      shown == IF truncate /\ Len(line) > maxCharsOf(opts)
               THEN SubSeq(line, 1, maxCharsOf(opts)) \o <<".", ".", ".">>
               ELSE line
      d2 == draw(d1, [op |-> "lineNumber", n |-> i, y |-> y1])
      d3 == draw(d2, [op |-> "line", n |-> i, text |-> shown, y |-> y1])
  IN  [d |-> d3, y |-> y1 + fontSizeMap(opts.fontSize).body * 5]

\* The callback of lines.forEach((line, index) => ...): break the page when
\* currentY is below pageHeight - marginBottom, draw the line number and the
\* line, and advance by the line height.  truncate is TRUE for the XML
\* renderer, which cuts the line to its character budget, and FALSE for the
\* JSON renderer.
renderLine(d, y, line, i, opts, marker, truncate) ==
  LET break == y > pageHeightOf(opts) - 200
      d1 == IF break
            THEN draw(addPage(d), [op |-> "continued", text |-> marker])
            ELSE d
      y1 == IF break THEN 200 ELSE y
      shown == IF truncate /\ Len(line) > maxCharsOf(opts)
               THEN SubSeq(line, 1, maxCharsOf(opts)) \o <<".", ".", ".">>
               ELSE line
      d2 == draw(d1, [op |-> "lineNumber", n |-> i, y |-> y1])
      d3 == draw(d2, [op |-> "line", n |-> i, text |-> shown, y |-> y1])
  IN  [d |-> d3, y |-> y1 + fontSizeMap(opts.fontSize).body * 5]

\* lines.forEach over the lines lo..hi, from the surface and currentY of at:
\* the first half of the lines, then the second from where the first ended
RECURSIVE renderLinesIn(_, _, _, _, _, _, _)
renderLinesIn(at, lines, lo, hi, opts, marker, truncate) ==
  IF lo > hi THEN at
  ELSE IF lo = hi THEN renderLine(at.d, at.y, lines[lo], lo, opts, marker, truncate)
  ELSE The({renderLinesIn(half, lines, (lo + hi) \div 2 + 1, hi, opts, marker, truncate)
            : half \in {renderLinesIn(at, lines, lo, (lo + hi) \div 2, opts, marker,
                                      truncate)}})

\* lines.forEach from line i on
renderLines(d, y, lines, i, opts, marker, truncate) ==
  renderLinesIn([d |-> d, y |-> y], lines, i, Len(lines), opts, marker, truncate).d

\* stampPage drawing the watermark under the footer
stampPageWatermarkFirst(d, i, pageCount, opts) ==
  LET d1 == IF opts.watermark # "" THEN addWatermark(setPage(d, i), opts.watermark)
            ELSE setPage(d, i)
  IN  addPageFooter(d1, i, pageCount, opts.footerText)

\* The body of the page loop: setPage; addPageFooter; addWatermark
stampPage(d, i, pageCount, opts) ==
  LET d1 == addPageFooter(setPage(d, i), i, pageCount, opts.footerText)
  IN  IF opts.watermark # "" THEN addWatermark(d1, opts.watermark) ELSE d1

\* for (let i = 1; i <= pageCount; i++) { ... }
RECURSIVE stampPages(_, _, _, _)
stampPages(d, i, pageCount, opts) ==
  IF i > pageCount THEN d
  ELSE The({stampPages(d1, i + 1, pageCount, opts)
            : d1 \in {stampPage(d, i, pageCount, opts)}})

(***************************************************************************)
(* XML conversion                                                          *)
(***************************************************************************)

\* xml.replace(/></g, '>\n<'): a line break after every '>' that a '<' follows
breakTags(s) ==
  Concat([j \in 1..Len(s) |->
            IF s[j] = ">" /\ j < Len(s) /\ s[j + 1] = "<" THEN <<">", "\n">>
            ELSE <<s[j]>>])

\* '  '.repeat(n)
RECURSIVE spaces(_)
spaces(n) == IF n <= 0 THEN <<>> ELSE <<" ", " ">> \o spaces(n - 1)

includes(s, t) == \E i \in 1..Len(s) : startsAt(s, i, t)

endsWith(s, t) == Len(s) >= Len(t) /\ startsAt(s, Len(s) - Len(t) + 1, t)

\* opensLevel without the test for a closing tag on the same line
opensLevelOfElement(line) ==
  /\ ~startsAt(line, 1, <<"<", "?">>)
  /\ ~startsAt(line, 1, <<"<", "/">>)
  /\ ~endsWith(line, <<"/", ">">>)

\* Whether formatXml indents what follows the (trimmed) line
opensLevel(line) ==
  /\ ~startsAt(line, 1, <<"<", "?">>)
  /\ ~startsAt(line, 1, <<"<", "/">>)
  /\ ~endsWith(line, <<"/", ">">>)
  /\ ~includes(line, <<"<", "/">>)

\* A formatter that emits the closing-tag line first and lowers indent after
formatLineLate(line, indent) ==
  LET closes == startsAt(line, 1, <<"<", "/">>)
  IN  [line |-> line, before |-> indent, at |-> indent,
       after |-> IF closes THEN (IF indent - 1 > 0 THEN indent - 1 ELSE 0)
                 ELSE IF opensLevel(line) THEN indent + 1 ELSE indent]

\* A formatter whose indent is lowered without the floor at zero
formatLineUnclamped(line, indent) ==
  LET at == IF startsAt(line, 1, <<"<", "/">>) THEN indent - 1 ELSE indent
  IN  [line |-> line, before |-> indent, at |-> at,
       after |-> IF opensLevel(line) THEN at + 1 ELSE at]

\* The callback of formatXml's forEach for a line that is not empty after
\* trimming: a closing-tag line lowers indent first, the line is emitted at
\* that indent, and indent is raised for what follows a line that opens a
\* level.  before, at and after are the values of the indent variable on
\* entry, at the emission and on exit.
formatLine(line, indent) ==
  LET at == IF startsAt(line, 1, <<"<", "/">>)
            THEN (IF indent - 1 > 0 THEN indent - 1 ELSE 0)
            ELSE indent
  IN  [line |-> line, before |-> indent, at |-> at,
       after |-> IF opensLevel(line) THEN at + 1 ELSE at]

\* formatXml, the forEach over the split lines lo..hi entered with indent:
\* one step per emitted line, those of the first half of the lines and then
\* those of the second, entered with the indent the first half left
RECURSIVE formatXmlFrom(_, _, _, _)
formatXmlFrom(lines, lo, hi, indent) ==
  IF lo > hi THEN <<>>
  ELSE IF lo = hi
  THEN (IF Trim(lines[lo]) = <<>> THEN <<>>
        ELSE <<formatLine(Trim(lines[lo]), indent)>>)
  ELSE The({first \o formatXmlFrom(lines, (lo + hi) \div 2 + 1, hi,
                                   IF first = <<>> THEN indent
                                   ELSE first[Len(first)].after)
            : first \in {formatXmlFrom(lines, lo, (lo + hi) \div 2, indent)}})

\* The steps of formatting xml
formatXmlSteps(xml) ==
  The({formatXmlFrom(lines, 1, Len(lines), 0)
       : lines \in {Split(breakTags(xml), "\n")}})

\* formatXml(xml): every emitted line followed by a newline
formatXml(xml) ==
  LET steps == formatXmlSteps(xml)
  IN  Concat([k \in 1..Len(steps) |->
                spaces(steps[k].at) \o steps[k].line \o <<"\n">>])

\* item[header] || '': the own field unless it is empty; for a header that
\* Object.prototype has too and the item lacks, the inherited function, which
\* is truthy and becomes the cell (written here as its String form)
fieldOrEmpty(item, header) ==
  IF hasKey(item, header) THEN getKey(item, header)
  ELSE IF header \in ProtoKeys
       THEN <<"function ">> \o header \o <<"() { [native code] }">>
  ELSE IF header = Constructor
       THEN <<"function ", "O", "b", "j", "e", "c", "t", "() { [native code] }">>
  ELSE <<>>

\* headerSet.add(key) for every key of every item, in order
RECURSIVE addAll(_, _)
addAll(set, keys) ==
  IF keys = <<>> THEN set
  ELSE addAll(IF \E i \in 1..Len(set) : set[i] = Head(keys) THEN set
              ELSE Append(set, Head(keys)),
              Tail(keys))

RECURSIVE headerUnion(_, _, _)
headerUnion(items, i, set) ==
  IF i > Len(items) THEN set
  ELSE headerUnion(items, i + 1, addAll(set, objectKeys(items[i])))

generateTableXmlPdf(data, opts, surf) ==
  LET headers == headerUnion(data, 1, <<>>)
      rows == [i \in 1..Len(data) |->
                 [j \in 1..Len(headers) |-> fieldOrEmpty(data[i], headers[j])]]
      top == decorate(opts, surf, "XML Data Export",
                      <<"Rows", Len(rows), "Columns", Len(headers)>>, 80, 0)
      head == tableHeaders(headers, opts)
      body == tableData(rows, opts)
      d == autoTable(top.d, head, body, opts, surf)
  IN  outcome("table", data, headers, rows, head, body, <<>>, d,
              "xml-export.pdf", FALSE)

generateStructuredXmlPdf(text, opts, surf) ==
  LET lines == Split(formatXml(text), "\n")
      top == decorate(opts, surf, "XML Document", <<"Lines", Len(lines)>>, 100, 40)
      d == renderLines(top.d, top.y, lines, 1, opts, "XML Document (continued)", TRUE)
      stamped == stampPages(d, 1, getNumberOfPages(d), opts)
  IN  outcome("structured", <<>>, <<>>, <<>>, <<>>, <<>>, lines, stamped,
              "xml-export.pdf", FALSE)

\* A dispatcher that draws the table layout whenever layout is 'table'
generatePdfFromXmlLayoutOnly(text, opts, surf) ==
  LET xml == parseXml(text)
      parsed == xml.results
      useTable == opts.layout = "table" \/ (opts.layout = "auto" /\ Len(parsed) > 0)
      out == IF useTable
             THEN generateTableXmlPdf(parsed, opts, surf)
             ELSE generateStructuredXmlPdf(text, opts, surf)
  IN  IF xml.threw
      THEN outcome("none", <<>>, <<>>, <<>>, <<>>, <<>>, <<>>, newDoc, "", TRUE)
      ELSE [out EXCEPT !.parsed = parsed, !.group = xml.group]

generatePdfFromXml(text, opts, surf) ==
  LET xml == parseXml(text)
      parsed == xml.results
      useTable == opts.layout = "table" \/ (opts.layout = "auto" /\ Len(parsed) > 0)
      out == IF useTable /\ Len(parsed) > 0
             THEN generateTableXmlPdf(parsed, opts, surf)
             ELSE generateStructuredXmlPdf(text, opts, surf)
  IN  IF xml.threw
      THEN outcome("none", <<>>, <<>>, <<>>, <<>>, <<>>, <<>>, newDoc, "", TRUE)
      ELSE [out EXCEPT !.parsed = parsed, !.group = xml.group]

(***************************************************************************)
(* JSON values, JSON.parse and JSON.stringify                              *)
(*                                                                         *)
(* A value is [t, v]: t its kind and v its content (a Boolean, a natural   *)
(* number, the characters of a string, the elements of an array, the       *)
(* properties of an object in Object.keys order).                          *)
(***************************************************************************)

JNull == [t |-> "null", v |-> <<>>]
JBool(b) == [t |-> "bool", v |-> b]
JNum(n) == [t |-> "num", v |-> n]
JStr(cs) == [t |-> "str", v |-> cs]
JArr(es) == [t |-> "arr", v |-> es]
JObj(ps) == [t |-> "obj", v |-> ps]
\* What a property read yields for a missing property, and for a method
\* inherited from Object.prototype
JUndefined == [t |-> "undefined", v |-> <<>>]
JFunction(name) == [t |-> "function", v |-> name]

\* Array.isArray(x)
isArray(x) == x.t = "arr"

\* typeof x === 'object'
typeofObject(x) == x.t \in {"obj", "arr", "null"}

\* The first position from i on that holds no JSON white space
skipWs(s, i) ==
  LET rest == {j \in i..Len(s) : s[j] \notin WhiteSpace}
  IN  IF rest = {} THEN Len(s) + 1 ELSE firstOf(rest)

jsonFail == [ok |-> FALSE, v |-> JNull, i |-> 0]

jsonOk(v, i) == [ok |-> TRUE, v |-> v, i |-> i]

\* The characters a JSON string may hold unescaped
plainChar(c) == c \notin {"\\", "\n", "\t", "\r", "\""}

\* The number of consecutive backslashes that end just before position j,
\* none of them before position lo
backslashRun(s, lo, j) ==
  LET other == {k \in lo..(j - 1) : s[k] # "\\"}
  IN  IF other = {} THEN j - lo
      ELSE j - 1 - (CHOOSE k \in other : \A m \in other : m <= k)

\* Whether the character at k is escaped by a backslash before it
isEscaped(s, lo, k) == backslashRun(s, lo, k) % 2 = 1

\* The characters of s at the positions idx, a sequence
charsAt(s, idx) == [n \in 1..Len(idx) |-> s[idx[n]]]

\* The characters of the string literal between its quotes at lo - 1 and
\* hi + 1: an escaping backslash is dropped, what it escapes is kept
unescaped(s, lo, hi) ==
  The({charsAt(s, idx)
       : idx \in {SelectSeq([k \in 1..(hi - lo + 1) |-> lo + k - 1],
                            LAMBDA k : isEscaped(s, lo, k) \/ s[k] # "\\")}})

\* Whether the characters between the quotes are legal: after an escaping
\* backslash a quote or a backslash, elsewhere a backslash or a plain
\* character
legalString(s, lo, hi) ==
  \A k \in lo..hi :
    IF isEscaped(s, lo, k) THEN s[k] \in {"\"", "\\"}
    ELSE s[k] = "\\" \/ plainChar(s[k])

\* A string literal whose opening quote stands at i; of the escapes only
\* \" and \\ are modelled (any other fails the parse)
jsonString(s, i) ==
  The({IF close # 0 /\ legalString(s, i + 1, close - 1)
       THEN jsonOk(unescaped(s, i + 1, close - 1), close + 1)
       ELSE jsonFail
       : close \in {firstOf({j \in (i + 1)..Len(s) :
                               s[j] = "\"" /\ ~isEscaped(s, i + 1, j)})}})

\* A number whose first digit stands at i: 0, or digits without leading zero
jsonNumber(s, i) ==
  LET stop == firstOf({j \in i..Len(s) : ~IsDigit(s[j])})
      end == IF s[i] = "0" THEN i
             ELSE IF stop = 0 THEN Len(s)
             ELSE stop - 1
  IN  jsonOk(JNum(DigitsToNat(SubSeq(s, i, end))), end + 1)

RECURSIVE jsonValue(_, _)
RECURSIVE jsonElements(_, _, _)
RECURSIVE jsonMembers(_, _, _)

\* The value that starts at or after position i0
jsonValue(s, i0) ==
  LET i == skipWs(s, i0)
  IN  IF i > Len(s) THEN jsonFail
      ELSE IF s[i] = "{"
           THEN (IF skipWs(s, i + 1) <= Len(s) /\ s[skipWs(s, i + 1)] = "}"
                 THEN jsonOk(JObj(<<>>), skipWs(s, i + 1) + 1)
                 ELSE jsonMembers(s, i + 1, <<>>))
      ELSE IF s[i] = "["
           THEN (IF skipWs(s, i + 1) <= Len(s) /\ s[skipWs(s, i + 1)] = "]"
                 THEN jsonOk(JArr(<<>>), skipWs(s, i + 1) + 1)
                 ELSE jsonElements(s, i + 1, <<>>))
      ELSE IF s[i] = "\""
           THEN (LET r == jsonString(s, i)
                 IN  IF r.ok THEN jsonOk(JStr(r.v), r.i) ELSE jsonFail)
      ELSE IF IsDigit(s[i]) THEN jsonNumber(s, i)
      ELSE IF startsAt(s, i, <<"t", "r", "u", "e">>) THEN jsonOk(JBool(TRUE), i + 4)
      ELSE IF startsAt(s, i, <<"f", "a", "l", "s", "e">>) THEN jsonOk(JBool(FALSE), i + 5)
      ELSE IF startsAt(s, i, <<"n", "u", "l", "l">>) THEN jsonOk(JNull, i + 4)
      ELSE jsonFail

\* The elements of an array from position i on, up to its ']'
jsonElements(s, i, acc) ==
  The({LET j == skipWs(s, r.i)
       IN  IF ~r.ok \/ j > Len(s) THEN jsonFail
           ELSE IF s[j] = "," THEN jsonElements(s, j + 1, Append(acc, r.v))
           ELSE IF s[j] = "]" THEN jsonOk(JArr(Append(acc, r.v)), j + 1)
           ELSE jsonFail
       : r \in {jsonValue(s, i)}})

\* The value of a member whose key was read as key
jsonMemberValue(s, key) ==
  LET colon == skipWs(s, key.i)
  IN  IF key.ok /\ colon <= Len(s) /\ s[colon] = ":"
      THEN jsonValue(s, colon + 1) ELSE jsonFail

\* The members of an object from position i on, up to its '}'
jsonMembers(s, i, acc) ==
  LET k == skipWs(s, i)
      key == IF k <= Len(s) /\ s[k] = "\"" THEN jsonString(s, k) ELSE jsonFail
  IN  The({LET j == skipWs(s, r.i)
           IN  IF ~r.ok \/ j > Len(s) THEN jsonFail
               ELSE IF s[j] = "," THEN jsonMembers(s, j + 1, setKey(acc, key.v, r.v))
               ELSE IF s[j] = "}" THEN jsonOk(JObj(setKey(acc, key.v, r.v)), j + 1)
               ELSE jsonFail
           : r \in {jsonMemberValue(s, key)}})

\* JSON.parse(text): ok is FALSE where it throws a SyntaxError
JSONparse(s) ==
  The({IF r.ok /\ skipWs(s, r.i) > Len(s) THEN r ELSE jsonFail
       : r \in {jsonValue(s, 1)}})

\* A string as JSON.stringify writes it: quotes and backslashes escaped
escaped(cs) ==
  Concat([i \in 1..Len(cs) |->
            IF cs[i] \in {"\"", "\\"} THEN <<"\\", cs[i]>> ELSE <<cs[i]>>])

quoted(cs) == <<"\"">> \o escaped(cs) \o <<"\"">>

\* sep between the pieces, nothing around them
RECURSIVE joinWith(_, _)
joinWith(pieces, sep) ==
  IF pieces = <<>> THEN <<>>
  ELSE IF Len(pieces) = 1 THEN pieces[1]
  ELSE pieces[1] \o sep \o joinWith(Tail(pieces), sep)

\* JSON.stringify(value, null, indent) at nesting depth; indent 0 is
\* JSON.stringify(value)
RECURSIVE stringifyAt(_, _, _)
stringifyAt(x, indent, depth) ==
  LET nl == IF indent = 0 THEN <<>> ELSE <<"\n">>
      pad(d) == IF indent = 0 THEN <<>> ELSE spaces(d)
      colon == IF indent = 0 THEN <<":">> ELSE <<":", " ">>
  IN  CASE x.t = "null" -> <<"n", "u", "l", "l">>
        [] x.t = "bool" -> IF x.v THEN <<"t", "r", "u", "e">>
                           ELSE <<"f", "a", "l", "s", "e">>
        [] x.t = "num" -> NatToString(x.v)
        [] x.t = "str" -> quoted(x.v)
        [] x.t = "arr" ->
             IF x.v = <<>> THEN <<"[", "]">>
             ELSE <<"[">> \o nl
                  \o joinWith([i \in 1..Len(x.v) |->
                                 pad(depth + 1) \o stringifyAt(x.v[i], indent, depth + 1)],
                              <<",">> \o nl)
                  \o nl \o pad(depth) \o <<"]">>
        [] x.t = "obj" ->
             IF x.v = <<>> THEN <<"{", "}">>
             ELSE <<"{">> \o nl
                  \o joinWith([i \in 1..Len(x.v) |->
                                 pad(depth + 1) \o quoted(x.v[i].k) \o colon
                                   \o stringifyAt(x.v[i].v, indent, depth + 1)],
                              <<",">> \o nl)
                  \o nl \o pad(depth) \o <<"}">>

\* JSON.stringify(value)
JSONstringify(x) == stringifyAt(x, 0, 0)

\* JSON.stringify(value, null, 2)
JSONstringify2(x) == stringifyAt(x, 2, 0)

(***************************************************************************)
(* JSON conversion                                                         *)
(***************************************************************************)

\* canFlattenToTable(data)
canFlattenToTable(data) ==
  \/ isArray(data) /\ Len(data.v) > 0 /\ typeofObject(data.v[1]) /\ data.v[1] # JNull
  \/ /\ typeofObject(data) /\ data # JNull
     /\ LET values == IF isArray(data) THEN data.v
                      ELSE [i \in 1..Len(data.v) |-> data.v[i].v]
        IN  \E i \in 1..Len(values) :
              /\ isArray(values[i])
              /\ Len(values[i].v) > 0
              /\ typeofObject(values[i].v[1])

IsNonNullObject(x) == typeofObject(x) /\ x # JNull

\* Object.values(data) of flattenJsonToTable: the first array whose first
\* element has typeof 'object', or no items
firstArrayOfObjects(values) ==
  LET hits == {i \in 1..Len(values) :
                 /\ isArray(values[i])
                 /\ Len(values[i].v) > 0
                 /\ typeofObject(values[i].v[1])}
  IN  IF hits = {} THEN <<>> ELSE values[firstOf(hits)].v

\* The indices "0" .. "n-1"
indexKeys(n) == [i \in 1..n |-> NatToString(i - 1)]

\* Object.keys(item), for an item that is not null
keysOf(item) ==
  CASE item.t = "obj" -> objectKeys(item.v)
    [] item.t \in {"arr", "str"} -> indexKeys(Len(item.v))
    [] OTHER -> <<>>

\* The name of item.constructor
constructorOf(item) ==
  CASE item.t = "obj" -> <<"O","b","j","e","c","t">>
    [] item.t = "arr" -> <<"A","r","r","a","y">>
    [] item.t = "str" -> <<"S","t","r","i","n","g">>
    [] item.t = "num" -> <<"N","u","m","b","e","r">>
    [] item.t = "bool" -> <<"B","o","o","l","e","a","n">>

\* The property read item[header], for an item that is not null
propertyOf(item, header) ==
  IF item.t = "obj" /\ hasKey(item.v, header) THEN getKey(item.v, header)
  ELSE IF item.t \in {"arr", "str"} /\ IsIndexKey(header)
          /\ DigitsToNat(header) < Len(item.v)
       THEN (IF item.t = "arr" THEN item.v[DigitsToNat(header) + 1]
             ELSE JStr(<<item.v[DigitsToNat(header) + 1]>>))
  ELSE IF item.t \in {"arr", "str"} /\ header = <<"l","e","n","g","t","h">>
       THEN JNum(Len(item.v))
  ELSE IF header \in ProtoKeys THEN JFunction(header)
  ELSE IF header = Constructor
       THEN JFunction(constructorOf(item))
  ELSE JUndefined

\* String(value) of a value that is neither an object nor null
stringOf(value) ==
  CASE value.t = "num" -> NatToString(value.v)
    [] value.t = "bool" -> IF value.v THEN <<"t", "r", "u", "e">>
                           ELSE <<"f", "a", "l", "s", "e">>
    [] value.t = "str" -> value.v
    [] value.t = "function" ->
         <<"function ">> \o value.v \o <<"() { [native code] }">>

\* The cell for header in the row of item
cellOf(item, header) ==
  LET value == propertyOf(item, header)
  IN  IF value = JNull \/ value = JUndefined THEN <<>>
      ELSE IF typeofObject(value) THEN JSONstringify(value)
      ELSE stringOf(value)

\* flattenJsonToTable taking the headers from the first item only
flattenJsonToTableFirstKeys(data) ==
  LET items == IF isArray(data) THEN SelectSeq(data.v, IsNonNullObject)
               ELSE IF typeofObject(data) /\ data # JNull
               THEN firstArrayOfObjects([i \in 1..Len(data.v) |-> data.v[i].v])
               ELSE <<>>
      headers == IF items = <<>> \/ items[1] = JNull THEN <<>> ELSE keysOf(items[1])
  IN  IF \E i \in 1..Len(items) : items[i] = JNull
      THEN [threw |-> TRUE, headers |-> <<>>, rows |-> <<>>]
      ELSE [threw |-> FALSE, headers |-> headers,
            rows |-> [i \in 1..Len(items) |->
                        [j \in 1..Len(headers) |-> cellOf(items[i], headers[j])]]]

\* flattenJsonToTable(data); threw where Object.keys(null) throws a TypeError
flattenJsonToTable(data) ==
  LET items == IF isArray(data) THEN SelectSeq(data.v, IsNonNullObject)
               ELSE IF typeofObject(data) /\ data # JNull
               THEN firstArrayOfObjects([i \in 1..Len(data.v) |-> data.v[i].v])
               ELSE <<>>
      keyLists == [i \in 1..Len(items) |->
                     IF items[i] = JNull THEN <<>> ELSE keysOf(items[i])]
      headers == addAll(<<>>, Concat(keyLists))
  IN  IF \E i \in 1..Len(items) : items[i] = JNull
      THEN [threw |-> TRUE, headers |-> <<>>, rows |-> <<>>]
      ELSE [threw |-> FALSE, headers |-> headers,
            rows |-> [i \in 1..Len(items) |->
                        [j \in 1..Len(headers) |-> cellOf(items[i], headers[j])]]]

generateTableJsonPdf(data, opts, surf) ==
  LET table == flattenJsonToTable(data)
      top == decorate(opts, surf, "JSON Data Export",
                      <<"Rows", Len(table.rows), "Columns", Len(table.headers)>>, 80, 0)
      head == tableHeaders(table.headers, opts)
      body == tableData(table.rows, opts)
      d == autoTable(top.d, head, body, opts, surf)
  IN  IF table.threw
      THEN outcome("table", data, <<>>, <<>>, <<>>, <<>>, <<>>, newDoc, "", TRUE)
      ELSE outcome("table", data, table.headers, table.rows, head, body, <<>>, d,
                   "json-export.pdf", FALSE)

generateStructuredJsonPdf(text, opts, surf) ==
  LET parsed == JSONparse(text)
      formatted == IF parsed.ok THEN JSONstringify2(parsed.v) ELSE text
      lines == Split(formatted, "\n")
      top == decorate(opts, surf, "JSON Document", <<"Lines", Len(lines)>>, 100, 40)
      d == renderLines(top.d, top.y, lines, 1, opts, "JSON Document (continued)", FALSE)
      stamped == stampPages(d, 1, getNumberOfPages(d), opts)
  IN  outcome("structured", <<>>, <<>>, <<>>, <<>>, <<>>, lines, stamped,
              "json-export.pdf", FALSE)

\* A dispatcher that honours layout 'table' before looking at the parse
generatePdfFromJsonLayoutFirst(text, opts, surf) ==
  LET parsed == JSONparse(text)
  IN  IF opts.layout = "table" THEN generateTableJsonPdf(parsed.v, opts, surf)
      ELSE IF parsed.ok /\ opts.layout = "auto" /\ canFlattenToTable(parsed.v)
      THEN generateTableJsonPdf(parsed.v, opts, surf)
      ELSE generateStructuredJsonPdf(text, opts, surf)

generatePdfFromJson(text, opts, surf) ==
  LET parsed == JSONparse(text)
      useTable == opts.layout = "table"
                    \/ (opts.layout = "auto" /\ canFlattenToTable(parsed.v))
  IN  IF ~parsed.ok THEN generateStructuredJsonPdf(text, opts, surf)
      ELSE IF useTable THEN generateTableJsonPdf(parsed.v, opts, surf)
      ELSE generateStructuredJsonPdf(text, opts, surf)

(***************************************************************************)
(* Inputs and options                                                      *)
(***************************************************************************)

\* The export options the page starts with (Index.tsx), no decoration set
DefaultOptions ==
  [pageSize |-> "a4", orientation |-> "portrait", fontSize |-> "medium",
   layout |-> "auto", showRowNumbers |-> TRUE, showMetadata |-> TRUE,
   customTitle |-> "", companyLogo |-> "", headerText |-> "",
   footerText |-> "", watermark |-> ""]

MaxCsvLen == 4
MaxRowsPerPage == 2

CsvAlphabet == {"a", ",", "\"", " ", "\n"}

\* "Name,Age\nAlice,30\nBob,25"
CsvExample ==
  <<"N","a","m","e",",","A","g","e","\n",
    "A","l","i","c","e",",","3","0","\n",
    "B","o","b",",","2","5">>

CsvContents == SeqsUpTo(CsvAlphabet, MaxCsvLen) \cup {CsvExample}

CsvOptions == {[DefaultOptions EXCEPT !.showRowNumbers = n] : n \in BOOLEAN}

Surfaces == [logoOk : BOOLEAN, rowsPerPage : 1..MaxRowsPerPage]

InitCsv ==
  /\ format = "csv"
  /\ content \in CsvContents
  /\ options \in CsvOptions
  /\ surface \in {s \in Surfaces : s.logoOk}
  /\ pc = "ready"
  /\ doc = noOutcome
  /\ NoPage

\* One call generatePdfFromCsv(content, options), from entry to doc.save or
\* to the exception that leaves it
ExportCsv ==
  /\ pc = "ready"
  /\ format = "csv"
  /\ doc' = generatePdfFromCsv(content, options, surface)
  /\ pc' = "done"
  /\ UNCHANGED <<format, content, options, surface, file, reads, notice>>

NextCsv == ExportCsv

SpecCsv == InitCsv /\ [][NextCsv]_vars

MaxXmlElems == 3

\* <name attrs>inner</name>
Elem(name, attrs, inner) ==
  <<"<">> \o name \o attrs \o <<">">> \o inner \o closeTag(name)

\* ' name="value"'
Attr(name, value) == <<" ">> \o name \o <<"=", "\"">> \o value \o <<"\"">>

\* The elements the bounded documents are built from: a record with an
\* attribute and a text-only child, one with a child only, one without
\* fields, a text-only element, and elements with numeric tag names
XmlElements ==
  { Elem(<<"p">>, Attr(<<"a">>, <<"1">>), Elem(<<"n">>, <<>>, <<"x">>)),
    Elem(<<"p">>, <<>>, Elem(<<"n">>, <<>>, <<" ", "y">>)),
    Elem(<<"p">>, <<>>, <<>>),
    Elem(<<"q">>, <<>>, <<"x">>),
    Elem(<<"2">>, Attr(<<"a">>, <<"2">>), <<>>),
    Elem(<<"1">>, Attr(<<"b">>, <<>>), <<>>) }

XmlBodies == {Concat(es) : es \in SeqsUpTo(XmlElements, MaxXmlElems)}

\* Two <product> elements inside a <catalog> root
XmlExample ==
  Elem(<<"c","a","t","a","l","o","g">>, <<>>,
       Elem(<<"p","r","o","d","u","c","t">>, Attr(<<"i","d">>, <<"P","1">>),
            Elem(<<"n","a","m","e">>, <<>>, <<"A">>))
       \o Elem(<<"p","r","o","d","u","c","t">>, Attr(<<"i","d">>, <<"P","2">>),
               Elem(<<"n","a","m","e">>, <<>>, <<"B">>)))

\* Two groups of two members each, the second with a numeric tag name and
\* then with a plain one
XmlTieNumeric ==
  Elem(<<"q">>, <<>>, <<"x">>) \o Elem(<<"q">>, <<>>, <<"x">>)
    \o Elem(<<"1">>, Attr(<<"b">>, <<>>), <<>>) \o Elem(<<"1">>, Attr(<<"b">>, <<>>), <<>>)

XmlTiePlain ==
  Elem(<<"q">>, <<>>, <<"x">>) \o Elem(<<"q">>, <<>>, <<"x">>)
    \o Elem(<<"p">>, Attr(<<"a">>, <<"1">>), <<>>) \o Elem(<<"p">>, <<>>, <<>>)

\* One element whose tag name Object.prototype has too
XmlInheritedTag == Elem(<<"v","a","l","u","e","O","f">>, <<>>, <<"x">>)

\* Two records, the first with a child element of such a name
XmlInheritedField ==
  Elem(<<"p">>, <<>>, Elem(<<"v","a","l","u","e","O","f">>, <<>>, <<"x">>))
    \o Elem(<<"p">>, Attr(<<"a">>, <<"1">>), Elem(<<"n">>, <<>>, <<"x">>))

\* Two records, the first with its text-only element one level further down
XmlGrandchild ==
  Elem(<<"p">>, <<>>, Elem(<<"g">>, <<>>, Elem(<<"n">>, <<>>, <<"x">>)))
    \o Elem(<<"p">>, Attr(<<"a">>, <<"1">>), Elem(<<"n">>, <<>>, <<"x">>))

XmlSpecial ==
  {XmlTieNumeric, XmlTiePlain, XmlInheritedTag, XmlInheritedField, XmlGrandchild}

\* Bare element sequences, the same inside a root element, and the same
\* after an XML declaration
XmlContents ==
  XmlBodies
    \cup {Elem(<<"r">>, <<>>, b) : b \in XmlBodies}
    \cup {<<"<", "?", "x", "m", "l", "?", ">", "\n">> \o b : b \in XmlBodies}
    \cup {XmlExample}
    \cup XmlSpecial

Layouts == {"auto", "table", "structured"}

XmlOptions == {[DefaultOptions EXCEPT !.layout = l] : l \in Layouts}

InitXml ==
  /\ format = "xml"
  /\ content \in XmlContents
  /\ options \in XmlOptions
  /\ surface = [logoOk |-> TRUE, rowsPerPage |-> 1]
  /\ pc = "ready"
  /\ doc = noOutcome
  /\ NoPage

\* One call generatePdfFromXml(content, options), from entry to doc.save or
\* to the exception that leaves it
ExportXml ==
  /\ pc = "ready"
  /\ format = "xml"
  /\ doc' = generatePdfFromXml(content, options, surface)
  /\ pc' = "done"
  /\ UNCHANGED <<format, content, options, surface, file, reads, notice>>

NextXml == ExportXml

SpecXml == InitXml /\ [][NextXml]_vars

MaxJsonItems == 2

\* The elements the candidate arrays are built from: records (one with a null
\* and a nested array, one with a nested object under a name that
\* Object.prototype has too, one without keys), an array, and the
\* non-objects null, 1 and "xy"
JsonElements ==
  { JObj(<<[k |-> <<"a">>, v |-> JNum(1)]>>),
    JObj(<<[k |-> <<"a">>, v |-> JNum(2)], [k |-> <<"b">>, v |-> JStr(<<"x">>)]>>),
    JObj(<<[k |-> <<"b">>, v |-> JNull], [k |-> <<"a">>, v |-> JArr(<<JNum(1)>>)]>>),
    JObj(<<[k |-> <<"v","a","l","u","e","O","f">>,
            v |-> JObj(<<[k |-> <<"c">>, v |-> JBool(TRUE)]>>)]>>),
    JObj(<<>>),
    JArr(<<JNum(1), JStr(<<"x">>)>>),
    JNull,
    JNum(1),
    JStr(<<"x", "y">>) }

JsonArrays == {JArr(es) : es \in SeqsUpTo(JsonElements, MaxJsonItems)}

\* {"items":[{"a":1},{"a":2,"b":"x"}]}
JsonExampleTree ==
  JObj(<<[k |-> <<"i","t","e","m","s">>,
          v |-> JArr(<<JObj(<<[k |-> <<"a">>, v |-> JNum(1)]>>),
                       JObj(<<[k |-> <<"a">>, v |-> JNum(2)],
                              [k |-> <<"b">>, v |-> JStr(<<"x">>)]>>)>>)]>>)

\* The arrays themselves, each as the only property of an object, each
\* between a scalar property and a second array of objects, and scalars
JsonTrees ==
  JsonArrays
    \cup {JObj(<<[k |-> <<"i","t","e","m","s">>, v |-> a]>>) : a \in JsonArrays}
    \cup {JObj(<<[k |-> <<"n">>, v |-> JNum(1)],
                 [k |-> <<"i","t","e","m","s">>, v |-> a],
                 [k |-> <<"z">>, v |-> JArr(<<JObj(<<[k |-> <<"c">>, v |-> JNum(3)]>>)>>)]>>) :
             a \in JsonArrays}
    \cup {JNum(7), JStr(<<"x">>), JNull, JBool(FALSE), JObj(<<>>)}

\* "{bad" and a text of three lines that is no JSON
JsonBad == { <<"{", "b", "a", "d">>,
             <<"{", "\n", " ", "b", "a", "d", ":", "\n", "}">> }

\* Every tree serialized compactly and with indentation, the same texts
\* without their last character, and the malformed texts
JsonContents ==
  {JSONstringify(t) : t \in JsonTrees}
    \cup {JSONstringify2(t) : t \in JsonTrees}
    \cup {SubSeq(JSONstringify2(t), 1, Len(JSONstringify2(t)) - 1) : t \in JsonTrees}
    \cup JsonBad

JsonExample == JSONstringify(JsonExampleTree)

JsonOptions == {[DefaultOptions EXCEPT !.layout = l] : l \in Layouts}

InitJson ==
  /\ format = "json"
  /\ content \in JsonContents
  /\ options \in JsonOptions
  /\ surface = [logoOk |-> TRUE, rowsPerPage |-> 1]
  /\ pc = "ready"
  /\ doc = noOutcome
  /\ NoPage

\* One call generatePdfFromJson(content, options), from entry to doc.save or
\* to the exception that leaves it
ExportJson ==
  /\ pc = "ready"
  /\ format = "json"
  /\ doc' = generatePdfFromJson(content, options, surface)
  /\ pc' = "done"
  /\ UNCHANGED <<format, content, options, surface, file, reads, notice>>

NextJson == ExportJson

SpecJson == InitJson /\ [][NextJson]_vars

\* The two XML formatters on their own: formatXml of the converter and the
\* formatter of the preview panel, which runs the same loop over the same
\* lines and joins the emitted lines instead of ending each with a newline
XmlPreview(xml) ==
  LET steps == formatXmlSteps(xml)
  IN  joinWith([k \in 1..Len(steps) |-> spaces(steps[k].at) \o steps[k].line],
               <<"\n">>)

MaxXmlTokens == 4

\* Pieces of markup: opening and closing tags, a self-closing tag, a
\* processing instruction, text and a line break
XmlTokens ==
  { <<"<", "a", ">">>, <<"<", "/", "a", ">">>, <<"<", "b", "/", ">">>,
    <<"<", "?", "x", "?", ">">>, <<"t">>, <<"\n">> }

XmlTexts == {Concat(ts) : ts \in SeqsUpTo(XmlTokens, MaxXmlTokens)}

InitFormat ==
  /\ format = "xml"
  /\ content \in XmlTexts
  /\ options = DefaultOptions
  /\ surface = [logoOk |-> TRUE, rowsPerPage |-> 1]
  /\ pc = "ready"
  /\ doc = noOutcome
  /\ NoPage

\* formatXml(content); the caller splits the text into the lines to draw
FormatXml ==
  /\ pc = "ready"
  /\ doc' = [noOutcome EXCEPT !.path = "formatXml",
                              !.parsed = formatXmlSteps(content),
                              !.lines = Split(formatXml(content), "\n")]
  /\ pc' = "done"
  /\ UNCHANGED <<format, content, options, surface, file, reads, notice>>

\* The preview panel formats content; it splits the text into the lines to
\* highlight
PreviewXml ==
  /\ pc = "ready"
  /\ doc' = [noOutcome EXCEPT !.path = "XmlPreview",
                              !.parsed = formatXmlSteps(content),
                              !.lines = Split(XmlPreview(content), "\n")]
  /\ pc' = "done"
  /\ UNCHANGED <<format, content, options, surface, file, reads, notice>>

NextFormat == FormatXml \/ PreviewXml

SpecFormat == InitFormat /\ [][NextFormat]_vars

\* Structured documents of many lines and of long lines, under every page
\* size, orientation, font size, metadata flag and logo
MaxLines == 70

\* n copies of s
repeat(s, n) == [i \in 1..(n * Len(s)) |-> s[((i - 1) % Len(s)) + 1]]

LayoutOptions ==
  {[DefaultOptions EXCEPT !.layout = "structured", !.pageSize = p,
                          !.orientation = o, !.fontSize = f,
                          !.showMetadata = m, !.companyLogo = l]
     : p \in {"a4", "letter"}, o \in {"portrait", "landscape"},
       f \in {"small", "medium", "large"}, m \in BOOLEAN, l \in {"", "logo"}}

\* Line lengths on both sides of the two character budgets
LineLengths == {80, 81, 120, 121}

\* The numbers of lines of the long documents: a few short ones, and every
\* number from below the smallest capacity of a first page up to MaxLines
LineCounts == {n \in 1..MaxLines : n <= 3 \/ n >= 20}

\* Text that is not JSON, of n lines; an array of n numbers, which is printed
\* on n + 2 lines; a string, which is printed on one line with its quotes
JsonLongContents ==
  {<<"x">> \o repeat(<<"\n", "x">>, n - 1) : n \in LineCounts}
    \cup {<<"[", "1">> \o repeat(<<",", "1">>, n - 1) \o <<"]">> : n \in 1..3}
    \cup {<<"\"">> \o repeat(<<"a">>, n - 2) \o <<"\"">> : n \in LineLengths}

\* n self-closing elements, formatted on n lines by formatXml, and an element
\* whose line is of a given length
XmlLongContents ==
  {repeat(<<"<", "a", "/", ">">>, n) : n \in {k \in 0..(MaxLines - 1) : k % 5 = 4}}
    \cup {<<"<", "a", ">">> \o repeat(<<"t">>, n - 7) \o <<"<", "/", "a", ">">>
            : n \in LineLengths}

InitPages ==
  /\ format \in {"json", "xml"}
  /\ content \in IF format = "json" THEN JsonLongContents ELSE XmlLongContents
  /\ options \in LayoutOptions
  /\ surface = [logoOk |-> TRUE, rowsPerPage |-> 1]
  /\ pc = "ready"
  /\ doc = noOutcome
  /\ NoPage

NextPages == ExportJson \/ ExportXml

SpecPages == InitPages /\ [][NextPages]_vars

\* The three formats with every decoration switched on and off, on a surface
\* whose addImage places the logo and on one whose addImage throws
DecorationOptions ==
  {[DefaultOptions EXCEPT !.layout = l, !.showMetadata = m, !.companyLogo = c,
                          !.headerText = h, !.footerText = f, !.watermark = w]
     : l \in Layouts, m \in BOOLEAN, c \in {"", "logo"}, h \in {"", "header"},
       f \in {"", "footer"}, w \in {"", "DRAFT"}}

InitLogo ==
  /\ format \in {"csv", "json", "xml"}
  /\ content = CASE format = "csv" -> CsvExample
                  [] format = "json" -> JsonExample
                  [] format = "xml" -> XmlExample
  /\ options \in DecorationOptions
  /\ surface \in [logoOk : BOOLEAN, rowsPerPage : {1}]
  /\ pc = "ready"
  /\ doc = noOutcome
  /\ NoPage

NextLogo == ExportCsv \/ ExportJson \/ ExportXml

SpecLogo == InitLogo /\ [][NextLogo]_vars

\* Structured documents of one and of several pages with every combination
\* of the decorations
StampOptions ==
  {[o EXCEPT !.fontSize = "large", !.orientation = r]
     : o \in {d \in DecorationOptions : d.layout = "structured"},
       r \in {"portrait", "landscape"}}

StampContents ==
  [json |-> {<<"x">> \o repeat(<<"\n", "x">>, n - 1)
               : n \in {1, MaxLines - 20, MaxLines}},
   xml |-> {repeat(<<"<", "a", "/", ">">>, n) : n \in {1, MaxLines - 1}}]

InitStamps ==
  /\ format \in {"json", "xml"}
  /\ content \in StampContents[format]
  /\ options \in StampOptions
  /\ surface = [logoOk |-> TRUE, rowsPerPage |-> 1]
  /\ pc = "ready"
  /\ doc = noOutcome
  /\ NoPage

SpecStamps == InitStamps /\ [][NextPages]_vars

(***************************************************************************)
(* The Index page: file selection, the file reads, samples, clear, export  *)
(***************************************************************************)

UpperCase ==
  <<"A","B","C","D","E","F","G","H","I","J","K","L","M","N","O","P","Q","R",
    "S","T","U","V","W","X","Y","Z">>

LowerCase ==
  <<"a","b","c","d","e","f","g","h","i","j","k","l","m","n","o","p","q","r",
    "s","t","u","v","w","x","y","z">>

\* String.prototype.toLowerCase
toLowerCase(s) ==
  [i \in 1..Len(s) |->
     IF \E k \in 1..26 : UpperCase[k] = s[i]
     THEN LowerCase[CHOOSE k \in 1..26 : UpperCase[k] = s[i]]
     ELSE s[i]]

\* filename.split('.').pop()?.toLowerCase()
extensionOf(filename) ==
  LET parts == Split(filename, ".")
  IN  toLowerCase(parts[Len(parts)])

\* detectFormat(filename), "null" for null
detectFormat(filename) ==
  LET ext == extensionOf(filename)
  IN  IF ext = <<"c", "s", "v">> THEN "csv"
      ELSE IF ext = <<"j", "s", "o", "n">> THEN "json"
      ELSE IF ext = <<"x", "m", "l">> THEN "xml"
      ELSE "null"

ALLOWED_MIME_TYPES ==
  {"text/csv", "application/json", "text/xml", "application/xml", "text/plain"}

\* UploadZone.validateFile(file).valid: the size limit of 5 MB, the
\* extension, and the MIME type when the browser gives one
validateFile(f) ==
  /\ ~(f.size > 5 * 1024 * 1024)
  /\ extensionOf(f.name) \in {<<"c", "s", "v">>, <<"j", "s", "o", "n">>, <<"x", "m", "l">>}
  /\ ~(f.type # "" /\ f.type \notin ALLOWED_MIME_TYPES)

\* validateContent(text, fileFormat).valid
validateContent(text, fileFormat) ==
  CASE fileFormat = "json" -> JSONparse(text).ok
    [] fileFormat = "xml" ->
         ~(~startsAt(Trim(text), 1, <<"<">>) \/ ~includes(Trim(text), <<">">>))
    [] fileFormat = "csv" -> ~(Len(Split(Trim(text), "\n")) < 2)

\* sampleData[demoFormat], shortened to a document of the same shape
sampleData(demoFormat) ==
  CASE demoFormat = "csv" -> CsvExample
    [] demoFormat = "json" -> JsonExample
    [] demoFormat = "xml" -> XmlExample

\* file.name.replace(/\.(csv|json|xml)$/i, '.pdf'), or `${format}-export.pdf`
\* without a file
pdfName(f, fileFormat) ==
  LET name == f.name
      n == Len(name)
      cut == IF n >= 4 /\ toLowerCase(SubSeq(name, n - 3, n)) \in
                             {<<".", "c", "s", "v">>, <<".", "x", "m", "l">>}
             THEN n - 4
             ELSE IF n >= 5 /\ toLowerCase(SubSeq(name, n - 4, n)) = <<".", "j", "s", "o", "n">>
             THEN n - 5
             ELSE n
  IN  IF f = NoFile
      THEN (CASE fileFormat = "csv" -> <<"c", "s", "v">>
              [] fileFormat = "json" -> <<"j", "s", "o", "n">>
              [] fileFormat = "xml" -> <<"x", "m", "l">>)
             \o <<"-", "e", "x", "p", "o", "r", "t", ".", "p", "d", "f">>
      ELSE IF cut < n THEN SubSeq(name, 1, cut) \o <<".", "p", "d", "f">>
      ELSE name

MaxReads == 2

\* The files the user can pick: one well-formed file of each format (one
\* with its extension in capitals), a JSON file that does not parse, a file
\* whose whole name is an extension, a text file and a file over 5 MB
Files ==
  { [name |-> <<"a", ".", "c", "s", "v">>, text |-> <<"h", "\n", "1">>,
     size |-> 3, type |-> "text/csv"],
    [name |-> <<"b", ".", "J", "S", "O", "N">>, text |-> <<"[", "1", "]">>,
     size |-> 3, type |-> "application/json"],
    [name |-> <<"c", ".", "j", "s", "o", "n">>, text |-> <<"{">>,
     size |-> 1, type |-> ""],
    [name |-> <<"d", ".", "x", "m", "l">>, text |-> <<"<", "a", "/", ">">>,
     size |-> 4, type |-> "text/xml"],
    [name |-> <<"c", "s", "v">>, text |-> <<"k", "\n", "2">>,
     size |-> 3, type |-> ""],
    [name |-> <<"e", ".", "t", "x", "t">>, text |-> <<"x">>,
     size |-> 1, type |-> "text/plain"],
    [name |-> <<"f", ".", "c", "s", "v">>, text |-> <<"b", "\n", "3">>,
     size |-> 6000000, type |-> "text/csv"] }

InitIndex ==
  /\ format = "null"
  /\ content = <<>>
  /\ options = DefaultOptions
  /\ surface = [logoOk |-> TRUE, rowsPerPage |-> 1]
  /\ pc = "page"
  /\ doc = noOutcome
  /\ NoPage

\* The page shows the upload zone and the sample buttons, or the editor with
\* Clear and the export panel
HeroShown == content = <<>>

EditorShown == content # <<>> /\ format # "null"

Without(seq, i) == SubSeq(seq, 1, i - 1) \o SubSeq(seq, i + 1, Len(seq))

\* handleFileSelect(selectedFile), as one step of the page
HandleFileSelect(f) ==
  /\ Len(reads) < MaxReads
  /\ IF detectFormat(f.name) = "null"
     THEN /\ notice' = "unsupported"
          /\ UNCHANGED <<file, format, reads>>
     ELSE /\ file' = f
          /\ format' = detectFormat(f.name)
          /\ reads' = Append(reads, [file |-> f, format |-> detectFormat(f.name)])
          /\ notice' = "none"
  /\ UNCHANGED <<content, options, surface, pc, doc>>

\* The upload zone's handleDrop / handleFileInput with file f, which hands
\* a file that passes validateFile to handleFileSelect
UploadFile ==
  /\ pc = "page"
  /\ HeroShown
  /\ \E f \in Files :
       IF validateFile(f) THEN HandleFileSelect(f)
       ELSE /\ notice' = "rejected"
            /\ UNCHANGED <<format, content, options, surface, pc, doc, file, reads>>

\* handleFileSelect called with any file
FileSelected ==
  /\ pc = "page"
  /\ HeroShown
  /\ \E f \in Files : HandleFileSelect(f)

\* reader.onload of a pending read: the text is validated as the format
\* detected when the read was started
ReadLoaded ==
  \E i \in 1..Len(reads) :
    LET text == reads[i].file.text
        detectedFormat == reads[i].format
    IN  /\ pc = "page"
        /\ reads' = Without(reads, i)
        /\ IF ~validateContent(text, detectedFormat)
           THEN /\ notice' = "invalid"
                /\ file' = NoFile
                /\ format' = "null"
                /\ UNCHANGED content
           ELSE /\ content' = text
                /\ notice' = "loaded"
                /\ UNCHANGED <<file, format>>
        /\ UNCHANGED <<options, surface, pc, doc>>

\* reader.onerror of a pending read
ReadFailed ==
  \E i \in 1..Len(reads) :
    /\ pc = "page"
    /\ reads' = Without(reads, i)
    /\ notice' = "readError"
    /\ UNCHANGED <<format, content, options, surface, pc, doc, file>>

\* handleDemoClick(demoFormat)
DemoClick ==
  /\ pc = "page"
  /\ HeroShown
  /\ \E demoFormat \in {"csv", "json", "xml"} :
       /\ file' = NoFile
       /\ format' = demoFormat
       /\ content' = sampleData(demoFormat)
       /\ notice' = "sample"
  /\ UNCHANGED <<options, surface, pc, doc, reads>>

\* handleClear
Clear ==
  /\ pc = "page"
  /\ EditorShown
  /\ file' = NoFile
  /\ content' = <<>>
  /\ format' = "null"
  /\ notice' = "none"
  /\ UNCHANGED <<options, surface, pc, doc, reads>>

\* The outcome of the generate function handleExport calls
generateFor(fileFormat, text, opts, surf) ==
  CASE fileFormat = "csv" -> generatePdfFromCsv(text, opts, surf)
    [] fileFormat = "json" -> generatePdfFromJson(text, opts, surf)
    [] fileFormat = "xml" -> generatePdfFromXml(text, opts, surf)

\* handleExport: the generate function of the stored format on the stored
\* content, saved under the name made from the file's; an exception is
\* caught and reported.  The page is followed up to its first export.
Export ==
  /\ pc = "page"
  /\ EditorShown
  /\ ~(content = <<>> \/ format = "null")
  /\ \E out \in {generateFor(format, content, options, surface)} :
       IF out.threw
       THEN doc' = out /\ notice' = "exportFailed"
       ELSE /\ doc' = [out EXCEPT !.saved = pdfName(file, format)]
            /\ notice' = "exported"
  /\ pc' = "done"
  /\ UNCHANGED <<format, content, options, surface, file, reads>>

NextIndex ==
  \/ UploadFile
  \/ FileSelected
  \/ ReadLoaded
  \/ ReadFailed
  \/ DemoClick
  \/ Clear
  \/ Export

SpecIndex == InitIndex /\ [][NextIndex]_vars

\* The export panel: the values its controls offer, one of each text
MaxChanges == 2

OptionValues ==
  [pageSize |-> {"a4", "letter"}, orientation |-> {"portrait", "landscape"},
   fontSize |-> {"small", "medium", "large"},
   layout |-> {"auto", "table", "structured"},
   showRowNumbers |-> BOOLEAN, showMetadata |-> BOOLEAN,
   customTitle |-> {"", "Title"}, headerText |-> {"", "header"},
   footerText |-> {"", "footer"}, watermark |-> {"", "DRAFT"}]

\* The number of options that differ from their defaults
Changes(opts) ==
  Cardinality({k \in DOMAIN OptionValues : opts[k] # DefaultOptions[k]})

\* A logo within the size limit and one above it
LogoFiles ==
  { [name |-> "logo.png", size |-> 1024 * 1024, result |-> "logo"],
    [name |-> "big.png", size |-> 1024 * 1024 + 1, result |-> "big"] }

\* The editor is shown with a sample; no logo read is pending
InitOptions ==
  /\ format \in {"csv", "json", "xml"}
  /\ content = sampleData(format)
  /\ options = DefaultOptions
  /\ surface = [logoOk |-> TRUE, rowsPerPage |-> 1]
  /\ pc = "page"
  /\ doc = noOutcome
  /\ NoPage

\* A control's onChange({ ...options, [k]: value }); the layout control is
\* there for JSON and XML only
ChangeOption ==
  /\ \E k \in DOMAIN OptionValues : \E value \in OptionValues[k] :
       /\ k = "layout" => format \in {"json", "xml"}
       /\ options' = [options EXCEPT ![k] = value]
       /\ Changes(options') <= MaxChanges
  /\ notice' = "none"
  /\ UNCHANGED <<format, content, surface, pc, doc, file, reads>>

\* handleLogoUpload with file f: a file above 1 MB is reported and nothing
\* else happens; otherwise a read is started whose onload holds the options
\* of this render (one read at a time here)
HandleLogoUpload(f) ==
  /\ IF f.size > 1024 * 1024
     THEN /\ notice' = "logoTooLarge"
          /\ UNCHANGED reads
     ELSE /\ reads = <<>>
          /\ reads' = Append(reads, [options |-> options, result |-> f.result])
          /\ notice' = "none"
  /\ UNCHANGED <<format, content, options, surface, pc, doc, file>>

\* The file input, shown while no logo is set
UploadLogo ==
  /\ options.companyLogo = ""
  /\ \E f \in LogoFiles : HandleLogoUpload(f)

\* reader.onload of the pending logo read i:
\* onChange({ ...options, companyLogo: result }) with the options it holds
LogoLoaded(i) ==
  /\ i \in 1..Len(reads)
  /\ options' = [reads[i].options EXCEPT !.companyLogo = reads[i].result]
  /\ reads' = Without(reads, i)
  /\ notice' = "none"
  /\ UNCHANGED <<format, content, surface, pc, doc, file>>

LogoRead == \E i \in 1..Len(reads) : LogoLoaded(i)

\* removeLogo, offered while a logo is set
RemoveLogo ==
  /\ options.companyLogo # ""
  /\ options' = [options EXCEPT !.companyLogo = ""]
  /\ notice' = "none"
  /\ UNCHANGED <<format, content, surface, pc, doc, file, reads>>

NextOptions ==
  \/ ChangeOption
  \/ UploadLogo
  \/ LogoRead
  \/ RemoveLogo

SpecOptions == InitOptions /\ [][NextOptions]_vars

\* The preview panel's tables.  A preview is the table it shows, or none
\* where it shows 'Cannot display as table'
noTable == [shown |-> FALSE, headers |-> <<>>, rows |-> <<>>]

\* The for loop of CsvPreview over the characters of a line
RECURSIVE csvPreviewScan(_, _, _, _, _)
csvPreviewScan(line, i, cells, current, inQuotes) ==
  IF i > Len(line) THEN Append(cells, Trim(current))
  ELSE IF line[i] = "\"" THEN csvPreviewScan(line, i + 1, cells, current, ~inQuotes)
  ELSE IF line[i] = "," /\ ~inQuotes
       THEN csvPreviewScan(line, i + 1, Append(cells, Trim(current)), <<>>, inQuotes)
  ELSE csvPreviewScan(line, i + 1, cells, Append(current, line[i]), inQuotes)

\* CsvPreview: rows of content.trim().split('\n'); the first is the header
CsvPreview(text) ==
  LET lines == Split(Trim(text), "\n")
      rows == [i \in 1..Len(lines) |-> csvPreviewScan(lines[i], 1, <<>>, <<>>, FALSE)]
  IN  [shown |-> TRUE, headers |-> IF rows = <<>> THEN <<>> ELSE rows[1], rows |-> rows]

\* The displayValue of a cell of JsonTablePreview
displayValue(item, header) ==
  LET value == propertyOf(item, header)
  IN  IF value = JNull \/ value = JUndefined THEN <<>>
      ELSE IF typeofObject(value) THEN JSONstringify(value)
      ELSE stringOf(value)

\* JsonTablePreview: the items and the union of their keys; none when the
\* text does not parse, when Object.keys(null) throws inside the try, and
\* when there are no items
JsonTablePreview(text) ==
  LET parsed == JSONparse(text)
      items == IF isArray(parsed.v) THEN SelectSeq(parsed.v.v, IsNonNullObject)
               ELSE IF typeofObject(parsed.v) /\ parsed.v # JNull
               THEN firstArrayOfObjects([i \in 1..Len(parsed.v.v) |-> parsed.v.v[i].v])
               ELSE <<>>
      headers == addAll(<<>>, Concat([i \in 1..Len(items) |-> keysOf(items[i])]))
  IN  IF ~parsed.ok \/ items = <<>> \/ (\E i \in 1..Len(items) : items[i] = JNull)
      THEN noTable
      ELSE [shown |-> TRUE, headers |-> headers,
            rows |-> [i \in 1..Len(items) |->
                        [j \in 1..Len(headers) |-> displayValue(items[i], headers[j])]]]

\* XmlTablePreview: the records of the largest group that repeats and the
\* union of their keys, the cell {item[header] || ''}; none when the
\* grouping throws inside the try, when no group repeats, and when no
\* record has a field
XmlTablePreview(text) ==
  LET grouped == groupMatches(matchAllElements(text, 1), <<>>)
      groups == grouped.groups
      max == pickGroup(groups, 1, <<>>, 0)
      members == IF max.name # <<>> /\ hasKey(groups, max.name)
                 THEN getKey(groups, max.name) ELSE <<>>
      items == SelectSeq([i \in 1..Len(members) |-> itemToObject(members[i])],
                         IsNonEmpty)
      headers == headerUnion(items, 1, <<>>)
  IN  IF grouped.threw \/ items = <<>> THEN noTable
      ELSE [shown |-> TRUE, headers |-> headers,
            rows |-> [i \in 1..Len(items) |->
                        [j \in 1..Len(headers) |-> fieldOrEmpty(items[i], headers[j])]]]

\* The preview panel in table mode with a content of any of the formats
InitPreview ==
  /\ format \in {"csv", "json", "xml"}
  /\ content \in CASE format = "csv" -> CsvContents
                    [] format = "json" -> JsonContents
                    [] format = "xml" -> XmlContents
  /\ options = DefaultOptions
  /\ surface = [logoOk |-> TRUE, rowsPerPage |-> 1]
  /\ pc = "ready"
  /\ doc = noOutcome
  /\ NoPage

\* What the panel shows for preview table t
Shows(t) ==
  /\ doc' = [noOutcome EXCEPT !.path = IF t.shown THEN "previewTable" ELSE "previewNone",
                              !.headers = t.headers, !.rows = t.rows]
  /\ pc' = "done"
  /\ UNCHANGED <<format, content, options, surface, file, reads, notice>>

PreviewCsv == pc = "ready" /\ format = "csv" /\ Shows(CsvPreview(content))

PreviewJsonTable == pc = "ready" /\ format = "json" /\ Shows(JsonTablePreview(content))

PreviewXmlTable == pc = "ready" /\ format = "xml" /\ Shows(XmlTablePreview(content))

NextPreview == PreviewCsv \/ PreviewJsonTable \/ PreviewXmlTable

SpecPreview == InitPreview /\ [][NextPreview]_vars

(***************************************************************************)
(* Properties of the tabular tokenizer                                     *)
(***************************************************************************)

\* The lines parseCsv tokenizes
CsvLines == Split(Trim(content), "\n")

QuotesBefore(line, p) == Cardinality({q \in 1..(p - 1) : line[q] = "\""})

\* The positions of the commas of a line that stand outside quotes
UnquotedCommas(line) ==
  {p \in 1..Len(line) : line[p] = "," /\ QuotesBefore(line, p) % 2 = 0}

\* The position of the j-th unquoted comma; 0 before the first cell and
\* Len(line) + 1 after the last
CellBound(line, j) ==
  IF j = 0 THEN 0
  ELSE IF j > Cardinality(UnquotedCommas(line)) THEN Len(line) + 1
  ELSE CHOOSE p \in UnquotedCommas(line) :
         Cardinality({q \in UnquotedCommas(line) : q < p}) = j - 1

IsNotQuote(c) == c # "\""

\* The text of the j-th cell of a line: what stands between two unquoted
\* commas, without its quote characters, trimmed
CellText(line, j) ==
  Trim(SelectSeq(SubSeq(line, CellBound(line, j - 1) + 1, CellBound(line, j) - 1),
                 IsNotQuote))

\* C5: parseCsv yields one row per line; a line with k commas outside quotes
\* yields k+1 cells, each the trimmed text between two such commas with the
\* quote characters removed (a comma inside quotes stays in the cell); and
\* "Name,Age\nAlice,30\nBob,25" yields header [Name, Age] and rows
\* [Alice, 30], [Bob, 25].
C5_Tokenizer ==
  pc = "done" =>
    /\ Len(doc.parsed) = Len(CsvLines)
    /\ \A i \in 1..Len(CsvLines) :
         LET line == CsvLines[i]
             row == doc.parsed[i]
         IN  /\ Len(row) = Cardinality(UnquotedCommas(line)) + 1
             /\ \A j \in 1..Len(row) :
                  /\ row[j] = CellText(line, j)
                  /\ \A k \in 1..Len(row[j]) : row[j][k] # "\""
                  /\ Trim(row[j]) = row[j]
    /\ content = CsvExample =>
         /\ doc.headers = << <<"N","a","m","e">>, <<"A","g","e">> >>
         /\ doc.rows = << << <<"A","l","i","c","e">>, <<"3","0">> >>,
                          << <<"B","o","b">>, <<"2","5">> >> >>

\* A tokenized line that holds a quoted comma in a cell and an unquoted one
\* that ended a cell
C5_Witness ==
  /\ pc = "done"
  /\ \E i \in 1..Len(doc.parsed) :
       /\ Len(doc.parsed[i]) >= 2
       /\ \E j \in 1..Len(doc.parsed[i]) :
            \E k \in 1..Len(doc.parsed[i][j]) : doc.parsed[i][j][k] = ","

\* The body rows handed to autoTable, without the row-number cell
BodyWithoutNumbers ==
  [i \in 1..Len(doc.body) |->
     IF options.showRowNumbers THEN Tail(doc.body[i]) ELSE doc.body[i]]

\* C6 as claimed: every row of parseCsv, and every body row handed to the
\* table renderer, has as many cells as the header row.
C6_Original ==
  pc = "done" =>
    /\ \A i \in 1..Len(doc.parsed) : Len(doc.parsed[i]) = Len(doc.parsed[1])
    /\ \A i \in 1..Len(doc.body) : Len(BodyWithoutNumbers[i]) = Len(doc.headers)

\* C6 as amended: rows keep their own width.  The body row handed to the
\* table renderer for line i+1 is the tokenized line unchanged, never padded
\* or cut to the header's width w, so it has w cells exactly when its line
\* has as many unquoted commas as the header line.
C6_RowsKeepTheirWidth ==
  pc = "done" =>
    /\ Len(doc.body) = Len(CsvLines) - 1
    /\ \A i \in 1..Len(doc.body) :
         /\ BodyWithoutNumbers[i] = doc.parsed[i + 1]
         /\ (Len(BodyWithoutNumbers[i]) = Len(doc.headers)
               <=> Cardinality(UnquotedCommas(CsvLines[i + 1]))
                     = Cardinality(UnquotedCommas(CsvLines[1])))

\* A body row whose width differs from the header's is handed to the renderer
C6_Witness ==
  /\ pc = "done"
  /\ \E i \in 1..Len(doc.body) : Len(BodyWithoutNumbers[i]) # Len(doc.headers)

\* C7 as claimed: empty or whitespace-only input yields zero rows, so the
\* caller sees no header row and no data rows.
C7_EmptyInputNoRows ==
  (pc = "done" /\ Trim(content) = <<>>) =>
    /\ Len(doc.parsed) = 0
    /\ doc.headers = <<>>
    /\ doc.rows = <<>>

(***************************************************************************)
(* What a finished document shows                                          *)
(***************************************************************************)

\* The drawings of one kind on a page, in drawing order
IsLine(item) == item.op = "line"

IsHead(item) == item.op = "head"

IsPageNumber(item) == item.op = "pageNumber"

\* The content lines drawn, page after page
RECURSIVE linesFrom(_, _)
linesFrom(pages, i) ==
  IF i > Len(pages) THEN <<>>
  ELSE LET drawn == SelectSeq(pages[i], IsLine)
       IN  [j \in 1..Len(drawn) |-> drawn[j].text] \o linesFrom(pages, i + 1)

DrawnLines == linesFrom(doc.pages, 1)

\* The finished document holds a table, respectively content lines
RendersTable ==
  /\ doc.saved # ""
  /\ \E i \in 1..Len(doc.pages) : SelectSeq(doc.pages[i], IsHead) # <<>>
  /\ DrawnLines = <<>>

RendersStructured ==
  /\ doc.saved # ""
  /\ \A i \in 1..Len(doc.pages) : SelectSeq(doc.pages[i], IsHead) = <<>>
  /\ DrawnLines # <<>>

(***************************************************************************)
(* Properties of the markup extractor                                      *)
(***************************************************************************)

\* Whether a well-formed element named name starts at position i of s: an
\* opening tag of exactly that name, then content, then its closing tag
WellFormedAt(s, i, name) ==
  /\ startsAt(s, i, <<"<">> \o name)
  /\ wordRun(s, i + 1) = Len(name)
  /\ \E gt \in (i + Len(name) + 1)..Len(s) :
       /\ s[gt] = ">"
       /\ \E e \in (gt + 1)..Len(s) : startsAt(s, e, closeTag(name))

\* The tag names that open somewhere in s
TagNames(s) ==
  {SubSeq(s, i + 1, i + wordRun(s, i + 1)) :
     i \in {j \in 1..Len(s) : s[j] = "<" /\ wordRun(s, j + 1) > 0}}

Repeats(s, name) == Cardinality({i \in 1..Len(s) : WellFormedAt(s, i, name)}) >= 2

\* C2 as claimed: when some tag name occurs as a well-formed element at
\* least twice, the record group parseXmlToObjects selects has at least 2
\* members; two <product> elements inside a root element yield exactly the
\* 2 product records.
C2_RepeatingTagSelected ==
  pc = "done" =>
    /\ (\E name \in TagNames(content) : Repeats(content, name))
          => doc.group.count >= 2
    /\ content = XmlExample =>
          doc.parsed =
            << <<[k |-> <<"@","i","d">>, v |-> <<"P","1">>],
                 [k |-> <<"n","a","m","e">>, v |-> <<"A">>]>>,
               <<[k |-> <<"@","i","d">>, v |-> <<"P","2">>],
                 [k |-> <<"n","a","m","e">>, v |-> <<"B">>]>> >>

\* The matches of the element expression in the content, and per tag name
\* how many there are and where the first one is
Matches == matchAllElements(content, 1)

MatchNames == {Matches[i].name : i \in 1..Len(Matches)}

MembersOf(name) == Cardinality({i \in 1..Len(Matches) : Matches[i].name = name})

FirstMatchOf(name) == firstOf({i \in 1..Len(Matches) : Matches[i].name = name})

\* The largest groups
Largest == {n \in MatchNames : \A m \in MatchNames : MembersOf(m) <= MembersOf(n)}

\* C13 as claimed: the group selected is one with the largest member count,
\* provided that count exceeds 1; among several largest groups it is the one
\* whose tag name comes first in the source, whatever tag names the matcher
\* accepts; when no group has more than one member none is selected.
C13_GroupSelection ==
  pc = "done" =>
    /\ ~doc.threw
    /\ IF \E n \in MatchNames : MembersOf(n) > 1
       THEN /\ doc.group.name \in Largest
            /\ doc.group.count = MembersOf(doc.group.name)
            /\ \A n \in Largest : FirstMatchOf(doc.group.name) <= FirstMatchOf(n)
       ELSE doc.group.name = <<>>

\* C14 as claimed: for a document in which no tag repeats, parseXmlToObjects
\* returns no record and generatePdfFromXml renders the structured layout,
\* for every layout value and without raising an error.
C14_NoRepeatStructured ==
  (pc = "done" /\ \A n \in TagNames(content) : ~Repeats(content, n)) =>
    /\ ~doc.threw
    /\ doc.parsed = <<>>
    /\ doc.path = "structured"
    /\ RendersStructured

\* C15 as claimed: generatePdfFromXml chooses the table layout whenever
\* layout is 'table', and for 'auto' exactly if parseXmlToObjects returns at
\* least one record; the structured layout in every other case.
C15_Original ==
  pc = "done" =>
    LET wantTable ==
          \/ options.layout = "table"
          \/ options.layout = "auto" /\ Len(parseXml(content).results) > 0
    IN  /\ doc.path = "table" <=> wantTable
        /\ doc.path = "structured" <=> ~wantTable

\* C15, amended: when parseXmlToObjects returns, the table layout is chosen
\* and drawn exactly if layout is 'table' or 'auto' and at least one record
\* was returned, and the structured layout in every other case, layout
\* 'table' without records included; when parseXmlToObjects throws, neither
\* layout is chosen and nothing is saved.
C15_TableNeedsRecords ==
  pc = "done" =>
    LET xml == parseXml(content)
        wantTable == options.layout \in {"table", "auto"} /\ Len(xml.results) > 0
    IN  IF xml.threw
        THEN doc.threw /\ doc.path = "none" /\ doc.saved = ""
        ELSE /\ ~doc.threw
             /\ (doc.path = "table" /\ RendersTable) <=> wantTable
             /\ (doc.path = "structured" /\ RendersStructured) <=> ~wantTable

\* Layout 'table' asked for a document without records
C15_Witness ==
  /\ pc = "done"
  /\ options.layout = "table"
  /\ TagNames(content) # {}
  /\ parseXml(content).results = <<>>
  /\ ~doc.threw
  /\ doc.path = "structured"

(***************************************************************************)
(* Properties of the JSON conversion                                       *)
(***************************************************************************)

\* C1 as claimed: for content that parses, the table layout is rendered
\* exactly when layout is 'table', or layout is 'auto' and canFlattenToTable
\* holds of the parsed tree; in every other case the structured layout is
\* rendered.
C1_LayoutChoice ==
  (pc = "done" /\ JSONparse(content).ok) =>
    LET wantTable ==
          \/ options.layout = "table"
          \/ options.layout = "auto" /\ canFlattenToTable(JSONparse(content).v)
    IN  /\ RendersTable <=> wantTable
        /\ RendersStructured <=> ~wantTable

\* C4: when JSON.parse fails, the structured path is taken for every layout,
\* nothing is thrown, and the lines drawn are the raw content split on
\* newlines, unmodified and in source order.
C4_ParseFailureStructured ==
  (pc = "done" /\ ~JSONparse(content).ok) =>
    /\ doc.path = "structured"
    /\ ~doc.threw
    /\ RendersStructured
    /\ DrawnLines = Split(content, "\n")
    /\ doc.lines = Split(content, "\n")

\* Malformed text of several lines exported with layout 'table'
C4_Witness ==
  /\ pc = "done"
  /\ ~JSONparse(content).ok
  /\ options.layout = "table"
  /\ Len(DrawnLines) >= 3

\* The claim's eligibility: an array whose first element is a non-null
\* object, or an object with a property whose value is such an array
\* ("object" as typeof has it: arrays count, and an array's properties are
\* its elements)
StartsWithObject(x) == isArray(x) /\ Len(x.v) > 0 /\ IsNonNullObject(x.v[1])

PropertyValues(x) ==
  IF isArray(x) THEN x.v
  ELSE IF x.t = "obj" THEN [i \in 1..Len(x.v) |-> x.v[i].v]
  ELSE <<>>

Eligible(x) ==
  \/ StartsWithObject(x)
  \/ \E i \in 1..Len(PropertyValues(x)) : StartsWithObject(PropertyValues(x)[i])

\* C8 as claimed: canFlattenToTable(tree) is true if and only if the tree is
\* eligible; an object whose only array property starts with null is not.
\* With layout 'auto' the path taken is canFlattenToTable's answer.
C8_Eligibility ==
  (pc = "done" /\ JSONparse(content).ok /\ options.layout = "auto") =>
    /\ canFlattenToTable(JSONparse(content).v) <=> Eligible(JSONparse(content).v)
    /\ doc.path = "table" <=> Eligible(JSONparse(content).v)

\* The candidate array of the claim: the tree itself, or its first property
\* that is an array of objects; empty when there is none
Candidate(x) ==
  IF isArray(x) THEN x.v
  ELSE LET hits == {i \in 1..Len(PropertyValues(x)) :
                      StartsWithObject(PropertyValues(x)[i])}
       IN  IF hits = {} THEN <<>> ELSE PropertyValues(x)[firstOf(hits)].v

ObjectElements(x) == SelectSeq(Candidate(x), IsNonNullObject)

\* C9 as claimed: headers are the keys of the candidate array's object
\* elements in order of first appearance, one row is produced per object
\* element, and non-object elements contribute no header and no row and
\* raise no exception, for a top-level array and for an array property.
C9_ScanSkipsNonObjects ==
  (pc = "done" /\ JSONparse(content).ok /\ doc.path = "table") =>
    LET objs == ObjectElements(JSONparse(content).v)
    IN  /\ ~doc.threw
        /\ doc.headers =
             addAll(<<>>, Concat([i \in 1..Len(objs) |-> keysOf(objs[i])]))
        /\ Len(doc.rows) = Len(objs)

\* C10 as claimed: the cell for header h in the row of record r is empty when
\* r lacks h or holds null there, the JSON serialization of an object or
\* array value, and the string form of a primitive value; the example is
\* rendered as headers [a, b] and rows [1, ""], [2, x].
C10_CellValues ==
  (pc = "done" /\ JSONparse(content).ok /\ doc.path = "table" /\ ~doc.threw) =>
    LET tree == JSONparse(content).v
        objs == ObjectElements(tree)
    IN  /\ Len(doc.rows) = Len(objs) =>
             \A i \in 1..Len(objs) : \A j \in 1..Len(doc.headers) :
               LET r == objs[i]
                   h == doc.headers[j]
                   own == r.t = "obj" /\ hasKey(r.v, h)
                   value == getKey(r.v, h)
               IN  r.t = "obj" =>
                     doc.rows[i][j] =
                       IF ~own \/ value = JNull THEN <<>>
                       ELSE IF value.t \in {"obj", "arr"} THEN JSONstringify(value)
                       ELSE stringOf(value)
        /\ (content = JsonExample /\ options.layout = "auto") =>
             /\ doc.headers = << <<"a">>, <<"b">> >>
             /\ doc.rows = << << <<"1">>, <<>> >>, << <<"2">>, <<"x">> >> >>

(***************************************************************************)
(* Properties of the table projections                                     *)
(***************************************************************************)

\* The records a table projection was built from
Records ==
  IF format = "json" THEN ObjectElements(JSONparse(content).v) ELSE doc.parsed

\* Whether record r has no field named h
Lacks(r, h) ==
  IF format = "json" THEN r.t = "obj" /\ ~hasKey(r.v, h) ELSE ~hasKey(r, h)

\* C11 as claimed: a table projection built from JSON or from XML records
\* has no duplicate header, every row has exactly as many cells as there are
\* headers, and the cell is the empty string wherever the record lacks the
\* field.
C11_Rectangular ==
  (pc = "done" /\ doc.path = "table" /\ ~doc.threw) =>
    /\ \A i, j \in 1..Len(doc.headers) : doc.headers[i] = doc.headers[j] => i = j
    /\ \A i \in 1..Len(doc.rows) : Len(doc.rows[i]) = Len(doc.headers)
    /\ Len(doc.rows) = Len(Records) =>
         \A i \in 1..Len(doc.rows) : \A j \in 1..Len(doc.headers) :
           Lacks(Records[i], doc.headers[j]) => doc.rows[i][j] = <<>>

\* The projection {headers, rows} as the JSON value JSON.stringify writes
ProjectionAsObject(headers, rows) ==
  JObj(<<[k |-> <<"h","e","a","d","e","r","s">>,
          v |-> JArr([j \in 1..Len(headers) |-> JStr(headers[j])])],
         [k |-> <<"r","o","w","s">>,
          v |-> JArr([i \in 1..Len(rows) |->
                        JArr([j \in 1..Len(rows[i]) |-> JStr(rows[i][j])])])]>>)

\* One row as a record keyed by the headers, built header by header
RECURSIVE RowAsRecord(_, _, _, _)
RowAsRecord(headers, row, j, obj) ==
  IF j > Len(headers) THEN JObj(obj)
  ELSE RowAsRecord(headers, row, j + 1, setKey(obj, headers[j], JStr(row[j])))

\* The projection as an array of records
ProjectionAsRecords(headers, rows) ==
  JArr([i \in 1..Len(rows) |-> RowAsRecord(headers, rows[i], 1, <<>>)])

\* flattenJsonToTable applied to the JSON text of a value
FlattenAgain(value) == flattenJsonToTable(JSONparse(JSONstringify(value)).v)

SameProjection(again) ==
  ~again.threw /\ again.headers = doc.headers /\ again.rows = doc.rows

\* C12 as claimed: for a flattenable tree, flattenJsonToTable applied to the
\* JSON serialization of its own projection yields the same headers in the
\* same order and the same cells; the projection is serialized as it is
\* returned, {headers, rows}, or as the array of its records.
C12_Idempotent ==
  (pc = "done" /\ doc.path = "table" /\ ~doc.threw /\ canFlattenToTable(doc.parsed)) =>
    \/ SameProjection(FlattenAgain(ProjectionAsObject(doc.headers, doc.rows)))
    \/ SameProjection(FlattenAgain(ProjectionAsRecords(doc.headers, doc.rows)))

(***************************************************************************)
(* Properties of the page footers                                          *)
(***************************************************************************)

\* C3 as claimed: on every page i of a finished document the footer reads
\* 'Page i of N' with N the final number of pages.
C3_FooterTotals ==
  (pc = "done" /\ doc.saved # "") =>
    \A i \in 1..Len(doc.pages) :
      LET stamps == SelectSeq(doc.pages[i], IsPageNumber)
      IN  /\ Len(stamps) = 1
          /\ stamps[1].page = i
          /\ stamps[1].total = Len(doc.pages)

(***************************************************************************)
(* Properties of the XML formatters                                        *)
(***************************************************************************)

Formatted == pc = "done" /\ doc.path \in {"formatXml", "XmlPreview"}

\* The steps the formatter took, one per emitted line
Steps == doc.parsed

\* The lines of the formatted text: formatXml's text ends with a newline, so
\* its split has one empty piece more; the split of an empty text is one
\* empty piece
EmittedLines ==
  IF doc.path = "formatXml" THEN SubSeq(doc.lines, 1, Len(doc.lines) - 1)
  ELSE IF doc.lines = << <<>> >> THEN <<>>
  ELSE doc.lines

\* The number of spaces a line starts with
Indentation(line) ==
  LET other == firstOf({j \in 1..Len(line) : line[j] # " "})
  IN  IF other = 0 THEN Len(line) ELSE other - 1

IsClosingLine(line) == startsAt(line, 1, <<"<", "/">>)

\* A line after which what follows is one level deeper
RaisesDepth(line) ==
  /\ ~startsAt(line, 1, <<"<", "?">>)
  /\ ~IsClosingLine(line)
  /\ ~endsWith(line, <<"/", ">">>)
  /\ ~includes(line, <<"<", "/">>)

\* The lines still open after the first k steps, innermost last: a closing
\* line closes the innermost open line, a line that raises the depth is open
\* from then on
RECURSIVE OpenLines(_, _)
OpenLines(steps, k) ==
  IF k = 0 THEN <<>>
  ELSE LET before == OpenLines(steps, k - 1)
           kept == IF IsClosingLine(steps[k].line) /\ before # <<>>
                   THEN SubSeq(before, 1, Len(before) - 1)
                   ELSE before
       IN  IF RaisesDepth(steps[k].line) THEN Append(kept, k) ELSE kept

\* The line that the closing line k closes, 0 if none is open
Opener(k) ==
  LET before == OpenLines(Steps, k - 1)
  IN  IF before = <<>> THEN 0 ELSE before[Len(before)]

\* line is the opening tag <name> of the closing tag </name>
IsOpeningTagOf(line, closing) ==
  /\ Len(closing) >= 4
  /\ closing[Len(closing)] = ">"
  /\ line = <<"<">> \o SubSeq(closing, 3, Len(closing))

ClosingSteps == {k \in 1..Len(Steps) : IsClosingLine(Steps[k].line)}

C17_DepthNeverNegative ==
  Formatted =>
    /\ Len(EmittedLines) = Len(Steps)
    /\ \A k \in 1..Len(Steps) :
         LET step == Steps[k]
         IN  /\ step.before >= 0 /\ step.at >= 0 /\ step.after >= 0
             /\ step.before = IF k = 1 THEN 0 ELSE Steps[k - 1].after
             /\ EmittedLines[k] = spaces(step.at) \o step.line
             /\ Indentation(EmittedLines[k]) = 2 * step.at
             /\ IsClosingLine(step.line) =>
                  /\ step.before > 0 => step.at = step.before - 1
                  /\ step.before = 0 => step.at = 0
                  /\ step.after = step.at

\* The preview formatter on a text with more closing than opening tags: one
\* closing line lowers the depth, a later one finds it at 0
C17_Witness ==
  /\ Formatted /\ doc.path = "XmlPreview"
  /\ \E k \in ClosingSteps : Steps[k].before > 0
  /\ \E k \in ClosingSteps : Steps[k].before = 0
  /\ Cardinality(ClosingSteps) > Cardinality({k \in 1..Len(Steps) : RaisesDepth(Steps[k].line)})

(***************************************************************************)
(* Properties of structured rendering                                      *)
(***************************************************************************)

Structured == pc = "done" /\ ~doc.threw /\ doc.path = "structured"

\* The character budget of a content line
Budget == IF options.orientation = "landscape" THEN 120 ELSE 80

\* A content line as it is to be shown within the budget
Shortened(line) ==
  IF Len(line) > Budget THEN SubSeq(line, 1, Budget) \o <<".", ".", ".">>
  ELSE line

\* C18: in structured rendering of both JSON and XML, a content line longer
\* than the budget of the orientation (80 portrait, 120 landscape) is drawn
\* as its first 80 (120) characters and an ellipsis, a line within the
\* budget is drawn unchanged, and every line is drawn exactly once
C18_LongLinesTruncated ==
  Structured =>
    /\ Len(DrawnLines) = Len(doc.lines)
    /\ \A i \in 1..Len(doc.lines) : DrawnLines[i] = Shortened(doc.lines[i])

\* Lengths of the page in tenths of a millimetre: the line height h, half
\* the body font size in millimetres; the usable height H between the top
\* and the bottom margin of 20 mm each; the height of the block above the
\* first line of the first page (logo, title, metadata)
LineHeight == fontSizeMap(options.fontSize).body * 5

UsableHeight == pageHeightOf(options) - 200 - 200

HeaderBlock ==
  (IF options.companyLogo # "" /\ surface.logoOk THEN 200 ELSE 0)
    + 80 + (IF options.showMetadata THEN 160 ELSE 40)

CeilDiv(a, b) == (a + b - 1) \div b

PageCount == Len(doc.pages)

LinesOnPage(i) == Len(SelectSeq(doc.pages[i], IsLine))

\* C19 as stated: L lines on pages of usable height H at line height h make
\* ceil(L / floor(H/h)) pages, the number of line slots of a page taken one
\* more or one less for the continuation header
C19_Original ==
  Structured =>
    \E slots \in {UsableHeight \div LineHeight - 1, UsableHeight \div LineHeight,
                  UsableHeight \div LineHeight + 1} :
      PageCount = CeilDiv(Len(doc.lines), slots)

\* The lines a first page and a continuation page hold: a line is drawn
\* when its baseline is not below the bottom margin
FirstPageLines == (UsableHeight - HeaderBlock) \div LineHeight + 1

NextPageLines == UsableHeight \div LineHeight + 1

\* C19: a structured document of L lines fills its first page with
\* floor((H - B) / h) + 1 lines, B the height of the logo, title and
\* metadata block, and every further page with floor(H / h) + 1 lines, so
\* it has 1 page when L is at most the first and otherwise
\* 1 + ceil((L - first) / further) pages
C19_PagesFromCapacities ==
  Structured =>
    LET L == Len(doc.lines)
    IN  /\ PageCount = IF L <= FirstPageLines THEN 1
                       ELSE 1 + CeilDiv(L - FirstPageLines, NextPageLines)
        /\ LinesOnPage(1) = IF L <= FirstPageLines THEN L ELSE FirstPageLines
        /\ \A i \in 2..(PageCount - 1) : LinesOnPage(i) = NextPageLines

\* A document with a logo and metadata that runs over three pages
C19_Witness ==
  /\ Structured
  /\ options.companyLogo # "" /\ options.showMetadata
  /\ PageCount = 3
  /\ Len(doc.lines) > FirstPageLines + NextPageLines

(***************************************************************************)
(* Properties of the page decorations                                      *)
(***************************************************************************)

\* A logo is configured and addImage throws
LogoFails == options.companyLogo # "" /\ ~surface.logoOk

\* The drawings of a kind on page i
DrawnOn(i, kind) == {j \in 1..Len(doc.pages[i]) : doc.pages[i][j].op = kind}

Drawn(kind) == \E i \in 1..Len(doc.pages) : DrawnOn(i, kind) # {}

\* The call of the generate function of the format with other options
GenerateWith(opts) ==
  CASE format = "csv" -> generatePdfFromCsv(content, opts, surface)
    [] format = "json" -> generatePdfFromJson(content, opts, surface)
    [] format = "xml" -> generatePdfFromXml(content, opts, surface)

HasExtension(name, ext) ==
  /\ Len(name) >= Len(ext) + 1
  /\ toLowerCase(SubSeq(name, Len(name) - Len(ext), Len(name))) = <<".">> \o ext

\* The format a file name stands for by its extension, "null" if none
FormatByExtension(name) ==
  IF HasExtension(name, <<"c", "s", "v">>) THEN "csv"
  ELSE IF HasExtension(name, <<"j", "s", "o", "n">>) THEN "json"
  ELSE IF HasExtension(name, <<"x", "m", "l">>) THEN "xml"
  ELSE "null"

\* C21: detectFormat gives csv, json or xml exactly for a file name ending
\* in .csv, .json or .xml in either case and null for every other name; for
\* a file it gives null for, handleFileSelect reports an error, starts no
\* read and leaves file, format and content as they are, so that every read
\* and every export is for a file with one of the three extensions
C21_DetectByExtension ==
  [][\A f \in Files :
       HandleFileSelect(f) =>
         /\ detectFormat(f.name) = FormatByExtension(f.name)
         /\ FormatByExtension(f.name) = "null" =>
              /\ notice' = "unsupported"
              /\ UNCHANGED <<file, format, content, reads, doc>>
         /\ FormatByExtension(f.name) # "null" =>
              /\ format' = FormatByExtension(f.name)
              /\ file' = f
              /\ Len(reads') = Len(reads) + 1]_vars

\* C26: after any interleaving of file selections, read completions, sample
\* clicks and Clear, the content is non-empty only if the format is set, so
\* the page shows the hero or the editor
C26_ContentOnlyWithFormat == content # <<>> => format # "null"

\* C27: the stored content is always the text that was loaded for the stored
\* format and file: the sample of the stored format when no file is stored,
\* and otherwise the text of the stored file, read as the format detected
\* from its name
C27_ContentOfStoredFile ==
  content # <<>> =>
    \/ file = NoFile /\ format # "null" /\ content = sampleData(format)
    \/ /\ file # NoFile
       /\ content = file.text
       /\ format = detectFormat(file.name)

\* The content lines of page p in drawing order, and the lowest baseline a
\* content line may have: the page height less the bottom margin of 20 mm
PageLines(p) == SelectSeq(doc.pages[p], IsLine)

LowestBaseline == pageHeightOf(options) - 200

\* C22: in structured rendering every content line is drawn at a baseline
\* of at most pageHeight - 20; a new page is started exactly when the next
\* line's baseline would exceed that bound, and the first line after a
\* break is at y = 20; every page after the first carries the continuation
\* marker, and the title and the metadata are on page 1 only
C22_PageBreaks ==
  Structured =>
    /\ \A p \in 1..PageCount : \A on \in {PageLines(p)} :
         \A k \in 1..Len(on) :
           /\ on[k].y <= LowestBaseline
           /\ k > 1 => on[k].y = on[k - 1].y + LineHeight
           /\ (k = 1 /\ p = 1) => on[k].y = 200 + HeaderBlock
           /\ (k = 1 /\ p > 1) =>
                /\ on[k].y = 200
                /\ \A before \in {PageLines(p - 1)} :
                     /\ before # <<>>
                     /\ before[Len(before)].y + LineHeight > LowestBaseline
    /\ \A p \in 1..PageCount :
         /\ Cardinality(DrawnOn(p, "continued")) = IF p = 1 THEN 0 ELSE 1
         /\ Cardinality(DrawnOn(p, "title")) = IF p = 1 THEN 1 ELSE 0
         /\ p > 1 => DrawnOn(p, "generated") = {} /\ DrawnOn(p, "meta") = {}
    /\ options.showMetadata <=>
         DrawnOn(1, "generated") # {} /\ DrawnOn(1, "meta") # {}

\* A document whose first page ends with a line exactly on the lowest
\* baseline and that continues on further pages
C22_Witness ==
  /\ Structured
  /\ PageCount >= 2
  /\ \E k \in 1..Len(doc.pages[1]) :
       IsLine(doc.pages[1][k]) /\ doc.pages[1][k].y = LowestBaseline
  /\ DrawnOn(2, "continued") # {}

\* What the page loop draws on page p of N: the page number, the footer
\* text when one is set, the attribution, and the watermark when one is set
StampKinds == {"pageNumber", "footerText", "attribution", "watermark"}

StampsOf(p) ==
  <<[op |-> "pageNumber", page |-> p, total |-> PageCount]>>
    \o (IF options.footerText # ""
        THEN <<[op |-> "footerText", text |-> options.footerText]>> ELSE <<>>)
    \o <<[op |-> "attribution"]>>
    \o (IF options.watermark # ""
        THEN <<[op |-> "watermark", text |-> options.watermark]>> ELSE <<>>)

\* C23: in a structured document the pages are stamped after the content:
\* page p of N ends with exactly one footer, numbered p of N, with the
\* footer text when one is set and the attribution, followed by exactly one
\* watermark, the last thing drawn on the page, when a watermark text is
\* set and by nothing when none is set; everything before is content
C23_StampedAfterContent ==
  Structured =>
    \A p \in 1..PageCount : \A on \in {doc.pages[p]} : \A stamps \in {StampsOf(p)} :
      /\ Len(on) > Len(stamps)
      /\ SubSeq(on, Len(on) - Len(stamps) + 1, Len(on)) = stamps
      /\ \A j \in 1..(Len(on) - Len(stamps)) : on[j].op \notin StampKinds
      /\ options.watermark # "" => on[Len(on)].op = "watermark"
      /\ options.watermark = "" => DrawnOn(p, "watermark") = {}

\* A document of three pages with a footer text and a watermark
C23_Witness ==
  /\ Structured
  /\ PageCount = 3
  /\ options.footerText # "" /\ options.watermark # ""
  /\ \A p \in 1..3 : doc.pages[p][Len(doc.pages[p])].op = "watermark"

\* The numbers of the content lines of page p, in drawing order
LineNumbersOn(p) == [k \in 1..LinesOnPage(p) |-> PageLines(p)[k].n]

\* C29: every structured document has at least one page and no page
\* without a content line: a page after the first begins with the
\* continuation marker immediately followed by a numbered content line, the
\* first content line is on page 1, and the line numbers drawn are 1..L
\* consecutively across the pages, each with its line
C29_NoEmptyPage ==
  Structured =>
    /\ PageCount >= 1
    /\ \A p \in 1..PageCount : \A on \in {doc.pages[p]} : \A ns \in {LineNumbersOn(p)} :
         /\ ns # <<>>
         /\ \A k \in 2..Len(ns) : ns[k] = ns[k - 1] + 1
         /\ ns[1] = IF p = 1 THEN 1
                    ELSE LineNumbersOn(p - 1)[LinesOnPage(p - 1)] + 1
         /\ p = PageCount => ns[Len(ns)] = Len(doc.lines)
         /\ p > 1 => /\ on[1].op = "continued"
                     /\ on[2].op = "lineNumber"
                     /\ on[3].op = "line"
         /\ \A j \in 1..Len(on) :
              on[j].op = "line" =>
                /\ j > 1
                /\ on[j - 1] = [op |-> "lineNumber", n |-> on[j].n, y |-> on[j].y]
         /\ Cardinality(DrawnOn(p, "lineNumber")) = Len(ns)

\* A document with the tallest header block (logo and metadata) on the
\* lowest page with the largest font, whose last page is filled exactly
C29_Witness ==
  /\ Structured
  /\ options.companyLogo # "" /\ options.showMetadata
  /\ options.pageSize = "letter" /\ options.orientation = "landscape"
  /\ options.fontSize = "large"
  /\ PageCount >= 2
  /\ Len(doc.lines) = FirstPageLines + (PageCount - 1) * NextPageLines
  /\ LineNumbersOn(1)[1] = 1

\* The kinds of line of a text with one tag per line: an opening tag, a
\* closing tag, a self-closing tag, an element with both its tags and its
\* text on the line, and a declaration
CountOf(line, c) == Cardinality({j \in 1..Len(line) : line[j] = c})

IsOneTag(line) ==
  /\ Len(line) >= 3
  /\ CountOf(line, "<") = 1 /\ CountOf(line, ">") = 1
  /\ line[1] = "<" /\ line[Len(line)] = ">"

IsDeclarationLine(line) ==
  IsOneTag(line) /\ startsAt(line, 1, <<"<", "?">>) /\ endsWith(line, <<"?", ">">>)

IsClosingTagLine(line) ==
  /\ IsOneTag(line)
  /\ startsAt(line, 1, <<"<", "/">>)
  /\ Len(line) > 3 /\ wordRun(line, 3) = Len(line) - 3

IsSelfClosingLine(line) ==
  IsOneTag(line) /\ wordRun(line, 2) > 0 /\ endsWith(line, <<"/", ">">>)

IsOpeningTagLine(line) ==
  IsOneTag(line) /\ wordRun(line, 2) > 0 /\ ~endsWith(line, <<"/", ">">>)

TagName(line) ==
  IF startsAt(line, 1, <<"<", "/">>) THEN SubSeq(line, 3, Len(line) - 1)
  ELSE SubSeq(line, 2, 1 + wordRun(line, 2))

IsElementLine(line) ==
  /\ Len(line) >= 7
  /\ CountOf(line, "<") = 2 /\ CountOf(line, ">") = 2
  /\ line[1] = "<" /\ wordRun(line, 2) > 0
  /\ endsWith(line, <<"<", "/">> \o TagName(line) \o <<">">>)
  /\ firstOf({j \in 1..Len(line) : line[j] = ">"})
       < firstOf({j \in 2..Len(line) : line[j] = "<"})
  /\ ~endsWith(SubSeq(line, 1, firstOf({j \in 1..Len(line) : line[j] = ">"})),
               <<"/", ">">>)

\* The opening-tag lines among the first k lines that are not yet closed,
\* innermost last, and whether the k lines are of the kinds above with every
\* closing tag closing the innermost open tag, of its own name
RECURSIVE Nesting(_)
Nesting(k) ==
  IF k = 0 THEN [open |-> <<>>, ok |-> TRUE]
  ELSE LET before == Nesting(k - 1)
           line == Steps[k].line
       IN  IF IsOpeningTagLine(line)
           THEN [open |-> Append(before.open, k), ok |-> before.ok]
           ELSE IF IsClosingTagLine(line)
           THEN IF /\ before.open # <<>>
                   /\ TagName(Steps[before.open[Len(before.open)]].line) = TagName(line)
                THEN [open |-> SubSeq(before.open, 1, Len(before.open) - 1),
                      ok |-> before.ok]
                ELSE [open |-> before.open, ok |-> FALSE]
           ELSE IF \/ IsSelfClosingLine(line) \/ IsElementLine(line)
                   \/ IsDeclarationLine(line)
           THEN before
           ELSE [open |-> before.open, ok |-> FALSE]

WellNested ==
  /\ Steps # <<>>
  /\ Nesting(Len(Steps)).ok
  /\ Nesting(Len(Steps)).open = <<>>

\* The innermost tag open where line k stands, 0 at the top level
Parent(k) ==
  LET open == Nesting(k - 1).open
  IN  IF open = <<>> THEN 0 ELSE open[Len(open)]

\* C30: for a well-nested text with one tag per line and no text-only line,
\* the formatter emits each closing-tag line at the indentation of the line
\* of its matching opening tag, every other line one level (two spaces)
\* deeper than the line of the tag it is inside and at 0 when it is inside
\* none, and ends with the depth counter at 0
C30_WellNestedDepths ==
  (Formatted /\ WellNested) =>
    /\ Len(EmittedLines) = Len(Steps)
    /\ \A k \in 1..Len(Steps) :
         Indentation(EmittedLines[k]) =
           IF IsClosingTagLine(Steps[k].line)
           THEN Indentation(EmittedLines[Parent(k)])
           ELSE IF Parent(k) = 0 THEN 0
           ELSE Indentation(EmittedLines[Parent(k)]) + 2
    /\ Steps[Len(Steps)].after = 0

\* An element inside an element, each closed by its own closing tag
C30_Witness ==
  /\ Formatted /\ WellNested /\ doc.path = "formatXml"
  /\ \E k \in 1..Len(Steps) :
       /\ IsClosingTagLine(Steps[k].line)
       /\ Indentation(EmittedLines[k]) = 2
       /\ IsOpeningTagLine(Steps[Parent(k)].line)
  /\ Steps[Len(Steps)].after = 0

\* The elements of the selected group, in document order
SelectedElements ==
  SelectSeq(matchAllElements(content, 1), LAMBDA m : m.name = doc.group.name)

\* The attributes of an element as fields
AttributeFields(item) ==
  {[k |-> <<"@">> \o attrAt(item.attributes, j).name,
    v |-> attrAt(item.attributes, j).content]
     : j \in {i \in 1..Len(item.attributes) : attrAt(item.attributes, i).ok}}

\* The number of elements open at position j of s: the opening tags before
\* j less the closing tags before j
NestingAt(s, j) ==
  Cardinality({i \in 1..(j - 1) : s[i] = "<" /\ wordRun(s, i + 1) > 0})
    - Cardinality({i \in 1..(j - 1) : startsAt(s, i, <<"<", "/">>)})

\* The text-only elements directly inside an element as fields
DirectChildFields(item) ==
  {[k |-> childAt(item.content, j).name, v |-> Trim(childAt(item.content, j).content)]
     : j \in {i \in 1..Len(item.content) :
                childAt(item.content, i).ok /\ NestingAt(item.content, i) = 0}}

FieldsOf(obj) == {obj[i] : i \in 1..Len(obj)}

HasFields(item) == AttributeFields(item) \cup DirectChildFields(item) # {}

\* C24: the records of parseXmlToObjects are those of the selected elements
\* that have an attribute or a direct text-only child, in order; every field
\* of a record is an attribute of its element under '@' + name or a direct
\* text-only child under its tag name with the trimmed text, no attribute
\* key is a child key, and an element without such fields gives no record
C24_FieldsOfDirectChildren ==
  (pc = "done" /\ ~doc.threw) =>
    \A from \in {SelectSeq(SelectedElements, HasFields)} :
      /\ Len(doc.parsed) = Len(from)
      /\ \A i \in 1..Len(from) :
           /\ i <= Len(doc.parsed)
           /\ FieldsOf(doc.parsed[i])
                \subseteq AttributeFields(from[i]) \cup DirectChildFields(from[i])
           /\ \A a \in AttributeFields(from[i]) : \A c \in DirectChildFields(from[i]) :
                a.k # c.k /\ hasKey(doc.parsed[i], a.k) /\ hasKey(doc.parsed[i], c.k)

\* Every option but the logo
OtherOptions(opts) == [k \in DOMAIN OptionValues |-> opts[k]]

\* C28: when the read of an uploaded logo completes, every option other
\* than companyLogo keeps the value the user set last, changes made since
\* the upload started included; a logo file larger than 1 MB changes no
\* option and starts no read
C28_LogoKeepsOtherOptions ==
  [][/\ \A i \in 1..Len(reads) :
          LogoLoaded(i) =>
            /\ OtherOptions(options') = OtherOptions(options)
            /\ options'.companyLogo = reads[i].result
     /\ \A f \in LogoFiles :
          (f.size > 1024 * 1024 /\ HandleLogoUpload(f)) =>
            UNCHANGED <<options, reads>>]_vars

\* The exporter's projection of the content: the rows of parseCsv with the
\* first as headers; flattenJsonToTable of the parsed text; the records of
\* parseXmlToObjects under the header union of generateTableXmlPdf.  No rows
\* where the text does not parse or the projection throws.
ExportedTable ==
  CASE format = "csv" ->
         LET rows == parseCsv(content)
         IN  [headers |-> IF rows = <<>> THEN <<>> ELSE rows[1], rows |-> rows]
    [] format = "json" ->
         LET parsed == JSONparse(content)
         IN  IF ~parsed.ok \/ flattenJsonToTable(parsed.v).threw
             THEN [headers |-> <<>>, rows |-> <<>>]
             ELSE [headers |-> flattenJsonToTable(parsed.v).headers,
                   rows |-> flattenJsonToTable(parsed.v).rows]
    [] format = "xml" ->
         LET xml == parseXml(content)
             headers == headerUnion(xml.results, 1, <<>>)
         IN  IF xml.threw THEN [headers |-> <<>>, rows |-> <<>>]
             ELSE [headers |-> headers,
                   rows |-> [i \in 1..Len(xml.results) |->
                               [j \in 1..Len(headers) |->
                                  fieldOrEmpty(xml.results[i], headers[j])]]]

Previewed == pc = "done" /\ doc.path \in {"previewTable", "previewNone"}

====
